---------------------------- MODULE Spec2Model ----------------------------
(***************************************************************************)
(* Resource-control layer of the chitram image backend:                    *)
(*   - UploadSemaphore (services/concurrency.py), a counter kept beside an *)
(*     asyncio.Semaphore, acquired under asyncio.timeout;                  *)
(*   - RateLimiter (services/rate_limiter.py), a fixed-window counter in   *)
(*     the counter store;                                                  *)
(*   - ImageService / CacheService (services/image_service.py,             *)
(*     services/cache_service.py), cache-aside reads, upload and delete;   *)
(*   - upload_image (api/images.py), the handler that ties them together.  *)
(* Every task is one coroutine of the single-threaded event loop: an       *)
(* action is the code a task runs between two suspension points.           *)
(***************************************************************************)
EXTENDS Integers, Sequences, FiniteSets, TLC

\* ------------------------------------------------------------------ bounds
NumTasks == 3
Tasks == 1..NumTasks
\* the tasks that call ImageService and the upload handler
NumWorkers == 2
Workers == 1..NumWorkers

\* UploadSemaphore.limit (the capacity) of the modelled instance
limit == 1

\* how many release() calls without a matching acquire the environment makes
MaxStray == 1

\* RateLimiter._limit and ._window_seconds of the modelled instance
rl_limit == 1
window_seconds == 2

\* tasks calling the rate limiter concurrently
NumClients == 2
Clients == 1..NumClients

\* checks of one identifier that the model follows inside one window
MaxCount == rl_limit + 1

\* callers of one storage backend at a time
NumCallers == 2

\* client identifiers (IP addresses)
Idents == {"ip1", "ip2"}
\* client address of the upload requests followed through the handler
UploadIdents == {"ip1"}

\* a key builder that leaves the identifier out
make_key_shared(identifier) == "chitram:ratelimit:"

\* RateLimiter._make_key(identifier): f"{key_prefix}:ratelimit:{identifier}"
make_key(identifier) == "chitram:ratelimit:" \o identifier

\* the keys of the counter store that the limiter uses
Keys == {make_key(i) : i \in Idents}

\* image ids (uuid4: a new image takes an id of which no trace is left) and
\* the users who upload and delete
Images == {"img1", "img2"}
Users == {"u1", "u2"}

VARIABLES
    semaphore,      \* asyncio.Semaphore: [value, waiters (deque of tasks' futures)]
    fut,            \* per task: state of the future it awaits in Semaphore.acquire
    must_cancel,    \* per task: Task._must_cancel set by the timeout's task.cancel()
    active_count,   \* UploadSemaphore._active_count
    pc,             \* per task: where the coroutine is
    released,       \* history: some release() has been called
    strays,         \* history: number of release() calls by tasks holding no slot
    rl_enabled,     \* RateLimiter._enabled
    rl_client,      \* RateLimiter._client is not None
    counter,        \* counter store, per key: [count, ttl]
    rl_pc,          \* per client: where its check() is
    rl_id,          \* per client: identifier of its check() in flight
    rl_result,      \* per client: what its last check() returned
    rl_status,      \* the dict that the last get_status call returned, none
                    \* while a call is in flight
    calls,          \* history, per identifier: batches executed in the current window
    granted,        \* history, where kept: per identifier the checks allowed on
                    \* the store's count in the current window and in the one
                    \* that ended last
    cache_on,       \* ImageService.cache is not None (a connected CacheService)
    cache_up,       \* CacheService._client is set and the cache store can answer
    db,             \* images table: per image id its user_id, or "absent"
    cache,          \* cache store: per image key, the kind of text stored ("none": no key)
    blobs,          \* storage: keys of the stored objects
    op,             \* per task: the ImageService call it is in
    handler,        \* per task: the call was made by the upload_image handler
    last,           \* history: what the call or request that ended last returned
    deleted,        \* history: images whose delete() returned (True, "deleted")
    rt,             \* an Image on its way through the cache: stage and values
    files,          \* LocalStorageBackend: per key the file's bytes, or "absent"
    objects,        \* MinioStorageBackend: per key the object's bytes, or "absent"
    faults,         \* the stores can fail with errors other than a missing key
    stc,            \* per caller of a backend: its call, where it is, its outcome
    intended,       \* history, per backend and key: the bytes of the last save
                    \* that returned, "absent" at first and after a delete that
                    \* returned True, "unknown" after a save or delete that raised
    rl_read,        \* the get_status in flight: its identifier and the GET
                    \* reply, or nothing
    boot,           \* lifespan: where startup is, the settings it reads, the
                    \* object store's bucket and the counter store's reach
    thumb           \* one image and its thumbnail: the row's thumbnail_key, the
                    \* snapshot in the cache, the thumbnail task, the readers

semVars == <<semaphore, fut, must_cancel, active_count, pc, released, strays>>
rlVars == <<rl_enabled, rl_client, counter, rl_pc, rl_id, rl_result, rl_status,
           calls, granted>>

imgVars == <<cache_on, cache_up, db, cache, blobs, op, handler, last, deleted>>

stoVars == <<files, objects, faults, stc, intended>>
statusVars == <<rl_read>>
bootVars == <<boot>>
thumbVars == <<thumb>>
auxVars == <<statusVars, bootVars, thumbVars>>
extVars == <<rt, stoVars, auxVars>>

vars == <<semVars, rlVars, imgVars, extVars>>

\* what the actions of one component leave alone
notSem == <<rlVars, imgVars, extVars>>
notRL == <<semVars, imgVars, extVars>>
notImg == <<rlVars, extVars>>
notSto == <<semVars, rlVars, imgVars, rt, auxVars>>
notRt == <<semVars, rlVars, imgVars, stoVars, auxVars>>
notStatus == <<semVars, imgVars, rt, stoVars, bootVars, thumbVars>>
notBoot == <<semVars, imgVars, rt, stoVars, statusVars, thumbVars>>
notThumb == <<semVars, rlVars, imgVars, rt, stoVars, statusVars, bootVars>>

\* ------------------------------------------------------------- helpers
Max(a, b) == IF a >= b THEN a ELSE b
Min(a, b) == IF a <= b THEN a ELSE b

RemoveTask(ws, t) == SelectSeq(ws, LAMBDA x : x # t)

\* ------------------------------------------------- asyncio.Semaphore
\* a locked() that forgets the counter and looks at the waiters only
locked_waiters_only(s, f) ==
    \E k \in 1..Len(s.waiters) : f[s.waiters[k]] # "cancelled"

\* Semaphore.locked(): value is 0 or some waiter's future is not cancelled
locked(s, f) ==
    s.value = 0 \/ \E k \in 1..Len(s.waiters) : f[s.waiters[k]] # "cancelled"

\* index of the first waiter whose future is not done (pending), 0 if none
FirstPending(s, f) ==
    IF \E k \in 1..Len(s.waiters) : f[s.waiters[k]] = "pending"
    THEN CHOOSE k \in 1..Len(s.waiters) :
            /\ f[s.waiters[k]] = "pending"
            /\ \A j \in 1..(k - 1) : f[s.waiters[j]] # "pending"
    ELSE 0

\* Semaphore._wake_up_next(): hand one unit to the first waiter not done.
\* Result: the semaphore and the futures after the call.
wake_up_next(s, f) ==
    LET k == FirstPending(s, f) IN
    IF k = 0
    THEN [sem |-> s, fut |-> f]
    ELSE [sem |-> [s EXCEPT !.value = @ - 1],
          fut |-> [f EXCEPT ![s.waiters[k]] = "result"]]

\* a release that wakes nobody and leaves the counter as it was
sem_release_lost(s, f) == [sem |-> s, fut |-> f]

\* Semaphore.release(): value += 1, then _wake_up_next()
sem_release(s, f) == wake_up_next([s EXCEPT !.value = @ + 1], f)

\* ------------------------------------------------- UploadSemaphore
active_uploads == active_count
available_slots == limit - active_count

\* UploadSemaphore.release(): semaphore.release(); count = max(0, count - 1)
release_count(c) == Max(0, c - 1)

\* acquire_with_timeout(), first part: runs until the first suspension.
\* A free semaphore is taken at once (no suspension, so the timeout cannot
\* fire in between); otherwise a future is queued and the task suspends.
\* pcTrue: where the caller continues on True.
AcquireBegin(t, pcTrue) ==
    IF ~locked(semaphore, fut)
    THEN /\ semaphore' = [semaphore EXCEPT !.value = @ - 1]
         /\ active_count' = active_count + 1
         /\ fut' = [fut EXCEPT ![t] = "none"]
         /\ pc' = [pc EXCEPT ![t] = pcTrue]
    ELSE /\ semaphore' = [semaphore EXCEPT !.waiters = Append(@, t)]
         /\ fut' = [fut EXCEPT ![t] = "pending"]
         /\ pc' = [pc EXCEPT ![t] = "waiting"]
         /\ UNCHANGED active_count

\* a timeout that never expires (asyncio.timeout(None))
TimeoutNever(t) ==
    /\ pc[t] = "waiting"
    /\ FALSE
    /\ UNCHANGED <<semVars, notSem>>

\* asyncio.timeout expires: Timeout._on_timeout calls task.cancel().  A pending
\* future is cancelled; a future that already has its result cannot be, and
\* the task is marked so that CancelledError is thrown when it next runs.
TimeoutFires(t) ==
    /\ pc[t] = "waiting"
    /\ ~must_cancel[t]
    /\ fut[t] # "cancelled"
    /\ IF fut[t] = "pending"
       THEN fut' = [fut EXCEPT ![t] = "cancelled"] /\ UNCHANGED must_cancel
       ELSE must_cancel' = [must_cancel EXCEPT ![t] = TRUE] /\ UNCHANGED fut
    /\ UNCHANGED <<semaphore, active_count, pc, released, strays>>
    /\ UNCHANGED notSem

\* a cancelled waiter that gives a unit back although none was handed to it
cancelled_wakeup_always(s, f, t) == sem_release(s, f)

\* a cancelled waiter that keeps the unit handed to it
cancelled_wakeup_leak(s, f, t) == [sem |-> s, fut |-> f]

\* what a waiter that wakes up with CancelledError gives back: nothing when
\* its own future was cancelled, the unit handed to it otherwise
cancelled_wakeup(s, f, t) ==
    IF f[t] = "cancelled"
    THEN [sem |-> s, fut |-> f]
    ELSE sem_release(s, f)

\* a waiter that wakes up with its future's result: passes a spare unit on
granted_wakeup(s, f) ==
    IF s.value > 0 THEN wake_up_next(s, f) ELSE [sem |-> s, fut |-> f]

\* acquire_with_timeout(), second part: the suspended task runs again.
\* pcTrue, pcFalse: where the caller continues on True and on False.
AcquireResume(t, pcTrue, pcFalse) ==
    /\ pc[t] = "waiting"
    /\ fut[t] # "pending"
    /\ LET s1 == [semaphore EXCEPT !.waiters = RemoveTask(@, t)] IN
       IF fut[t] = "result" /\ ~must_cancel[t]
       THEN LET r == granted_wakeup(s1, fut) IN
            /\ semaphore' = r.sem
            /\ fut' = [r.fut EXCEPT ![t] = "none"]
            /\ active_count' = active_count + 1
            /\ pc' = [pc EXCEPT ![t] = pcTrue]
       ELSE LET r == cancelled_wakeup(s1, fut, t) IN
            /\ semaphore' = r.sem
            /\ fut' = [r.fut EXCEPT ![t] = "none"]
            /\ pc' = [pc EXCEPT ![t] = pcFalse]
            /\ UNCHANGED active_count

\* UploadSemaphore.release()
ReleaseCall ==
    LET r == sem_release(semaphore, fut) IN
    /\ semaphore' = r.sem
    /\ fut' = r.fut
    /\ active_count' = release_count(active_count)
    /\ released' = TRUE

\* ------------------------------------------------- tasks using the pool
\* A task calls acquire_with_timeout(); a task that timed out may call again.
Acquire(t) ==
    /\ pc[t] \in {"idle", "timed_out"}
    /\ AcquireBegin(t, "holding")
    /\ must_cancel' = [must_cancel EXCEPT ![t] = FALSE]
    /\ UNCHANGED <<released, strays>>
    /\ UNCHANGED notSem

Resume(t) ==
    /\ ~handler[t]
    /\ AcquireResume(t, "holding", "timed_out")
    /\ UNCHANGED must_cancel
    /\ UNCHANGED <<released, strays>>
    /\ UNCHANGED notSem

\* the holder of a slot releases it
Release(t) ==
    /\ pc[t] = "holding"
    /\ ReleaseCall
    /\ pc' = [pc EXCEPT ![t] = "idle"]
    /\ UNCHANGED <<must_cancel, strays>>
    /\ UNCHANGED notSem

\* release() by a task that holds no slot (test_release_does_not_go_negative)
StrayRelease(t) ==
    /\ pc[t] \in {"idle", "timed_out"}
    /\ strays < MaxStray
    /\ ReleaseCall
    /\ strays' = strays + 1
    /\ UNCHANGED <<must_cancel, pc>>
    /\ UNCHANGED notSem

SemInit ==
    /\ semaphore = [value |-> limit, waiters |-> <<>>]
    /\ fut = [t \in Tasks |-> "none"]
    /\ must_cancel = [t \in Tasks |-> FALSE]
    /\ active_count = 0
    /\ pc = [t \in Tasks |-> "idle"]
    /\ released = FALSE
    /\ strays = 0

\* ------------------------------------------------- counter store (Redis)
\* a key that does not exist
NoKey == [count |-> 0, ttl |-> -2]

\* an INCR that counts a missing key from 1
redis_incr_from_one(e) == IF e.count = 0 THEN [count |-> 2, ttl |-> -1]
                                         ELSE [e EXCEPT !.count = @ + 1]

\* EXPIRE key seconds: sets the expiry of an existing key, whatever it was
redis_expire(e, seconds) ==
    IF e.count > 0 THEN [e EXCEPT !.ttl = seconds] ELSE e

\* INCR key: a missing key counts from 0 and is created without expiry
redis_incr(e) == IF e.count = 0 THEN [count |-> 1, ttl |-> -1]
                                ELSE [e EXCEPT !.count = @ + 1]

\* EXPIRE key seconds NX: sets the expiry only when the key has none
redis_expire_nx(e, seconds) ==
    IF e.count > 0 /\ e.ttl = -1 THEN [e EXCEPT !.ttl = seconds] ELSE e

\* TTL key: remaining seconds, -1 without expiry, -2 without key
redis_ttl(e) == e.ttl

\* a batch whose caller reads the reply of EXPIRE where INCR's is meant
pipeline_execute_wrong_reply(e, seconds) ==
    LET e1 == redis_incr(e)
        e2 == redis_expire_nx(e1, seconds)
    IN [entry |-> e2, count |-> IF e1.ttl = -1 THEN 1 ELSE 0,
        ttl |-> redis_ttl(e2)]

\* the MULTI/EXEC batch of check(): INCR, EXPIRE NX, TTL, run as one unit.
\* Result: the key afterwards and the replies results[0], results[2].
pipeline_execute(e, seconds) ==
    LET e1 == redis_incr(e)
        e2 == redis_expire_nx(e1, seconds)
    IN [entry |-> e2, count |-> e1.count, ttl |-> redis_ttl(e2)]

\* ------------------------------------------------- RateLimiter.check
NoResult == [path |-> "none"]

\* an error exit that denies the request
fail_closed(i, path) ==
    [path |-> path, ident |-> i, k |-> 0, overlapped |-> FALSE, ttl_read |-> 0,
     allowed |-> FALSE, current_count |-> 0, limit |-> rl_limit,
     remaining |-> 0, retry_after |-> <<window_seconds>>]

\* RateLimitResult of the fail-open exits (disabled, no client, RedisError)
fail_open(i, path) ==
    [path |-> path, ident |-> i, k |-> 0, overlapped |-> FALSE, ttl_read |-> 0,
     allowed |-> TRUE, current_count |-> 0, limit |-> rl_limit,
     remaining |-> rl_limit, retry_after |-> <<>>]

\* a decision that already denies the limit-th request
decision_off_by_one(i, current_count, ttl, k, overlapped) ==
    IF current_count >= rl_limit
    THEN [path |-> "ok", ident |-> i, k |-> k, overlapped |-> overlapped,
          ttl_read |-> ttl,
          allowed |-> FALSE, current_count |-> current_count, limit |-> rl_limit,
          remaining |-> 0,
          retry_after |-> << IF ttl > 0 THEN ttl ELSE window_seconds >>]
    ELSE [path |-> "ok", ident |-> i, k |-> k, overlapped |-> overlapped,
          ttl_read |-> 0,
          allowed |-> TRUE, current_count |-> current_count, limit |-> rl_limit,
          remaining |-> Max(0, rl_limit - current_count),
          retry_after |-> <<>>]

\* a decision that passes the TTL reply on as it is
decision_raw_ttl(i, current_count, ttl, k, overlapped) ==
    IF current_count > rl_limit
    THEN [path |-> "ok", ident |-> i, k |-> k, overlapped |-> overlapped,
          ttl_read |-> ttl,
          allowed |-> FALSE, current_count |-> current_count, limit |-> rl_limit,
          remaining |-> 0,
          retry_after |-> <<ttl>>]
    ELSE [path |-> "ok", ident |-> i, k |-> k, overlapped |-> overlapped,
          ttl_read |-> 0,
          allowed |-> TRUE, current_count |-> current_count, limit |-> rl_limit,
          remaining |-> Max(0, rl_limit - current_count),
          retry_after |-> <<>>]

\* a decision that still allows the request after the limit-th
decision_one_over(i, current_count, ttl, k, overlapped) ==
    IF current_count > rl_limit + 1
    THEN [path |-> "ok", ident |-> i, k |-> k, overlapped |-> overlapped,
          ttl_read |-> ttl,
          allowed |-> FALSE, current_count |-> current_count, limit |-> rl_limit,
          remaining |-> 0,
          retry_after |-> << IF ttl > 0 THEN ttl ELSE window_seconds >>]
    ELSE [path |-> "ok", ident |-> i, k |-> k, overlapped |-> overlapped,
          ttl_read |-> 0,
          allowed |-> TRUE, current_count |-> current_count, limit |-> rl_limit,
          remaining |-> Max(0, rl_limit - current_count),
          retry_after |-> <<>>]

\* RateLimitResult computed from the batch's replies.  History fields: k, the
\* number of batches the store executed for the identifier in this window,
\* overlapped, whether another check of the identifier was in flight, and
\* ttl_read, the TTL reply of the batch where the decision depends on it (a
\* denial), 0 otherwise.
decision(i, current_count, ttl, k, overlapped) ==
    IF current_count > rl_limit
    THEN [path |-> "ok", ident |-> i, k |-> k, overlapped |-> overlapped,
          ttl_read |-> ttl,
          allowed |-> FALSE, current_count |-> current_count, limit |-> rl_limit,
          remaining |-> 0,
          retry_after |-> << IF ttl > 0 THEN ttl ELSE window_seconds >>]
    ELSE [path |-> "ok", ident |-> i, k |-> k, overlapped |-> overlapped,
          ttl_read |-> 0,
          allowed |-> TRUE, current_count |-> current_count, limit |-> rl_limit,
          remaining |-> Max(0, rl_limit - current_count),
          retry_after |-> <<>>]

\* The history of allowed checks, not kept: the state every specification
\* starts in but the one that counts the allowed checks of a window
NoHistory ==
    [kept |-> FALSE, prev |-> [i \in Idents |-> 0], now |-> [i \in Idents |-> 0]]

\* a check of identifier i returned a decision made of the store's count
Grant(g, i, allowed) ==
    IF g.kept /\ allowed THEN [g EXCEPT !.now[i] = @ + 1] ELSE g

\* the windows of the identifiers in ended are over: DEL or expiry of the key
EndWindow(g, ended) ==
    IF g.kept
    THEN [g EXCEPT !.prev = [i \in Idents |-> IF i \in ended THEN g.now[i]
                                                            ELSE g.prev[i]],
                   !.now = [i \in Idents |-> IF i \in ended THEN 0 ELSE g.now[i]]]
    ELSE g

\* check(identifier) up to the batch's await: the two early fail-open exits
CheckCall(c, i) ==
    /\ rl_pc[c] = "idle"
    /\ IF ~rl_enabled
       THEN /\ rl_result' = [rl_result EXCEPT ![c] = fail_open(i, "disabled")]
            /\ UNCHANGED <<rl_pc, rl_id>>
       ELSE IF ~rl_client
       THEN /\ rl_result' = [rl_result EXCEPT ![c] = fail_open(i, "no_client")]
            /\ UNCHANGED <<rl_pc, rl_id>>
       ELSE /\ rl_pc' = [rl_pc EXCEPT ![c] = "execute"]
            /\ rl_id' = [rl_id EXCEPT ![c] = i]
            /\ rl_result' = [rl_result EXCEPT ![c] = NoResult]
    /\ UNCHANGED <<rl_status, rl_enabled, rl_client, counter, calls, granted>>
    /\ UNCHANGED notRL

\* check(identifier) from pipe.execute() on, the store answering: it runs the
\* batch as one unit and the decision is computed from the replies
CheckExecute(c) ==
    /\ rl_pc[c] = "execute"
    /\ LET i == rl_id[c]
           r == pipeline_execute(counter[make_key(i)], window_seconds)
       IN /\ counter[make_key(i)].count < MaxCount
          /\ counter' = [counter EXCEPT ![make_key(i)] = r.entry]
          /\ calls' = [calls EXCEPT ![i] = @ + 1]
          /\ rl_result' = [rl_result EXCEPT
                              ![c] = decision(i, r.count, r.ttl, calls[i] + 1,
                                              \E d \in Clients \ {c} :
                                                  rl_pc[d] = "execute" /\ rl_id[d] = i)]
          /\ granted' = Grant(granted, i, rl_result'[c].allowed)
    /\ rl_pc' = [rl_pc EXCEPT ![c] = "idle"]
    /\ UNCHANGED <<rl_status, rl_enabled, rl_client, rl_id>>
    /\ UNCHANGED notRL

\* check(identifier) from pipe.execute() on, the store not answering: the
\* call raises RedisError and the limiter fails open
CheckRedisError(c) ==
    /\ rl_pc[c] = "execute"
    /\ rl_result' = [rl_result EXCEPT ![c] = fail_open(rl_id[c], "error")]
    /\ rl_pc' = [rl_pc EXCEPT ![c] = "idle"]
    /\ UNCHANGED <<rl_status, rl_enabled, rl_client, counter, rl_id, calls, granted>>
    /\ UNCHANGED notRL

\* The results of checks counted in a window that has ended are history: of
\* a denial the model keeps that it was one of an ended window, and how the
\* window ended.
Forget(res, ended, by) ==
    [c \in Clients |->
        IF res[c].path = "ok" /\ res[c].ident \in ended
        THEN IF res[c].allowed THEN NoResult
             ELSE [path |-> "ended", ident |-> res[c].ident, by |-> by]
        ELSE res[c]]

\* what get_status read in a window that has ended is history as well
ForgetStatus(st, ended) ==
    IF st.path = "status" /\ st.ident \in ended THEN NoResult ELSE st

\* reset(identifier), the store answering: DEL key
Reset(i) ==
    /\ rl_client
    /\ counter[make_key(i)] # NoKey
    /\ counter' = [counter EXCEPT ![make_key(i)] = NoKey]
    /\ calls' = [calls EXCEPT ![i] = 0]
    /\ rl_result' = Forget(rl_result, {i}, "reset")
    /\ rl_status' = ForgetStatus(rl_status, {i})
    /\ granted' = EndWindow(granted, {i})
    /\ UNCHANGED <<rl_enabled, rl_client, rl_pc, rl_id>>
    /\ UNCHANGED notRL

\* what get_status returns when it has no client or the store raised
status_unavailable(i) ==
    [path |-> "status", ident |-> i, current_count |-> 0, limit |-> rl_limit,
     remaining |-> rl_limit, ttl |-> 0]

\* a GET that counts the read
redis_get_counting(e) ==
    [entry |-> [e EXCEPT !.count = @ + 1], reply |-> e.count]

\* GET key: the key as it is afterwards and the reply, the count or 0 where
\* get_status takes a missing key for 0
redis_get(e) == [entry |-> e, reply |-> e.count]

\* TTL key as a command: the key as it is afterwards and the reply
redis_ttl_command(e) == [entry |-> e, reply |-> redis_ttl(e)]

\* the dict get_status builds from the two replies
status_dict(i, current_count, ttl) ==
    [path |-> "status", ident |-> i, current_count |-> current_count,
     limit |-> rl_limit,
     remaining |-> Max(0, rl_limit - current_count),
     ttl |-> Max(0, ttl)]

\* get_status(identifier) up to the first reply.  Without a client it returns
\* the dict of an unused quota; with one, the batch is sent with
\* transaction=False, so the store runs GET and TTL as two commands that
\* commands of other connections can separate: this step is the GET.
GetStatusGet(i) ==
    /\ rl_read = <<>>
    /\ IF ~rl_client
       THEN /\ rl_status' = status_unavailable(i)
            /\ UNCHANGED <<counter, rl_read>>
       ELSE LET r == redis_get(counter[make_key(i)]) IN
            /\ counter' = [counter EXCEPT ![make_key(i)] = r.entry]
            /\ rl_read' = <<i, r.reply>>
            /\ rl_status' = NoResult
    /\ UNCHANGED <<rl_enabled, rl_client, rl_pc, rl_id, rl_result, calls, granted>>
    /\ UNCHANGED notStatus

\* get_status(identifier), the TTL of the batch and the dict made of the two
\* replies
GetStatusTtl ==
    /\ rl_read # <<>>
    /\ LET i == rl_read[1]
           r == redis_ttl_command(counter[make_key(i)])
       IN /\ counter' = [counter EXCEPT ![make_key(i)] = r.entry]
          /\ rl_status' = status_dict(i, rl_read[2], r.reply)
    /\ rl_read' = <<>>
    /\ UNCHANGED <<rl_enabled, rl_client, rl_pc, rl_id, rl_result, calls, granted>>
    /\ UNCHANGED notStatus

\* get_status(identifier), pipe.execute() raising RedisError: the dict of an
\* unused quota
GetStatusRedisError ==
    /\ rl_read # <<>>
    /\ rl_status' = status_unavailable(rl_read[1])
    /\ rl_read' = <<>>
    /\ UNCHANGED <<rl_enabled, rl_client, counter, rl_pc, rl_id, rl_result, calls, granted>>
    /\ UNCHANGED notStatus

\* one second passes: expiries count down, a key whose time is up is removed
Tick ==
    LET ended == {i \in Idents : counter[make_key(i)].ttl = 0} IN
    /\ \E k \in Keys : counter[k].ttl >= 0
    /\ counter' = [k \in Keys |->
                      IF counter[k].ttl = 0 THEN NoKey
                      ELSE IF counter[k].ttl > 0
                           THEN [counter[k] EXCEPT !.ttl = @ - 1]
                           ELSE counter[k]]
    /\ calls' = [i \in Idents |-> IF i \in ended THEN 0 ELSE calls[i]]
    /\ rl_result' = Forget(rl_result, ended, "expiry")
    /\ rl_status' = ForgetStatus(rl_status, ended)
    /\ granted' = EndWindow(granted, ended)
    /\ UNCHANGED <<rl_enabled, rl_client, rl_pc, rl_id>>
    /\ UNCHANGED notRL

RLInit ==
    /\ rl_enabled \in BOOLEAN
    /\ rl_client \in BOOLEAN
    /\ counter = [k \in Keys |-> NoKey]
    /\ rl_pc = [c \in Clients |-> "idle"]
    /\ rl_id = [c \in Clients |-> "ip1"]
    /\ rl_result = [c \in Clients |-> NoResult]
    /\ rl_status = NoResult
    /\ calls = [i \in Idents |-> 0]
    /\ granted = NoHistory

\* ------------------------------------------------- cache serialization
\* A Python value: the name of its type and its content as a tuple of pieces
\* of text (digits for an int; seconds, microseconds and UTC offset for a
\* datetime, the offset empty for a naive one).
PyNone == [py |-> "NoneType", v |-> <<>>]
PyStr(pieces) == [py |-> "str", v |-> pieces]
PyInt(digits) == [py |-> "int", v |-> <<digits>>]
PyDatetime(second, microsecond, offset) ==
    [py |-> "datetime", v |-> <<second, microsecond, offset>>]

\* bool(x)
truthy(x) ==
    CASE x.py = "NoneType" -> FALSE
      [] x.py = "str" -> x.v # <<>>
      [] x.py = "int" -> x.v # <<"0">>
      [] OTHER -> TRUE

\* datetime.isoformat(sep): date and time to the second, the microseconds
\* when they are not zero, the offset when the datetime is aware
isoformat(d, sep) ==
    <<"2025-01-03", sep, "12:30:", d.v[1]>>
    \o (IF d.v[2] # "000000" THEN <<".", d.v[2]>> ELSE <<>>)
    \o (IF d.v[3] # "" THEN <<d.v[3]>> ELSE <<>>)

\* datetime.fromisoformat(text): the date, one separator character, the time,
\* an optional fraction and an optional offset; ValueError for other text
fromisoformat(text) ==
    IF Len(text) < 4 \/ text[1] # "2025-01-03" \/ text[3] # "12:30:"
    THEN [py |-> "ValueError", v |-> <<>>]
    ELSE LET rest == SubSeq(text, 5, Len(text))
             frac == Len(rest) >= 2 /\ rest[1] = "."
             tail == IF frac THEN SubSeq(rest, 3, Len(rest)) ELSE rest
         IN IF Len(tail) > 1
            THEN [py |-> "ValueError", v |-> <<>>]
            ELSE PyDatetime(text[4],
                            IF frac THEN rest[2] ELSE "000000",
                            IF tail = <<>> THEN "" ELSE tail[1])

\* the columns of Image that the cache snapshot carries
Fields == {"id", "filename", "storage_key", "content_type", "file_size",
           "upload_ip", "width", "height", "user_id", "delete_token_hash",
           "thumbnail_key", "created_at"}

\* _image_to_dict(image): every field as it is, created_at as its ISO text
image_to_dict(image) ==
    [f \in Fields |->
        IF f = "created_at"
        THEN IF truthy(image[f]) THEN PyStr(isoformat(image[f], "T")) ELSE PyNone
        ELSE image[f]]

\* json.dumps(metadata, default=str) in set_image_metadata: a JSON string,
\* number or null per field; a value of another type goes through str()
json_dumps(d) ==
    [f \in DOMAIN d |->
        CASE d[f].py = "str" -> [j |-> "string", v |-> d[f].v]
          [] d[f].py = "int" -> [j |-> "number", v |-> d[f].v]
          [] d[f].py = "NoneType" -> [j |-> "null", v |-> <<>>]
          [] OTHER -> [j |-> "string", v |-> isoformat(d[f], " ")]]

\* json.loads(data) in get_image_metadata
json_loads(text) ==
    [f \in DOMAIN text |->
        CASE text[f].j = "string" -> PyStr(text[f].v)
          [] text[f].j = "number" -> PyInt(text[f].v[1])
          [] OTHER -> PyNone]

\* a _dict_to_image that builds the Image from the dict as it was read
dict_to_image_as_read(data) == data

\* _dict_to_image(data): created_at, when it is a non-empty str, parsed back
\* to a datetime; then Image(**data).  A ValueError of the parse propagates.
dict_to_image(data) ==
    LET created_at == data["created_at"] IN
    IF truthy(created_at) /\ created_at.py = "str"
    THEN IF fromisoformat(created_at.v).py = "ValueError"
         THEN [raised |-> "ValueError"]
         ELSE [data EXCEPT !["created_at"] = fromisoformat(created_at.v)]
    ELSE data

\* the images the round trip is tried on
Datetimes ==
    {PyDatetime(s_, us, off) : s_ \in {"45", "46"}, us \in {"000000", "000005"},
                               off \in {"", "+00:00"}}

ImageValues ==
    {[f \in Fields |->
        CASE f = "id" -> PyStr(<<"img1">>)
          [] f = "filename" -> PyStr(<<"a.jpg">>)
          [] f = "storage_key" -> PyStr(<<"img1.jpg">>)
          [] f = "content_type" -> PyStr(<<"image/jpeg">>)
          [] f = "file_size" -> size
          [] f = "upload_ip" -> PyStr(<<"127.0.0.1">>)
          [] f = "width" -> width
          [] f = "height" -> width
          [] f = "user_id" -> user_id
          [] f = "delete_token_hash" -> PyNone
          [] f = "thumbnail_key" -> thumbnail_key
          [] OTHER -> created_at] :
     size \in {PyInt("0"), PyInt("1024")},
     width \in {PyNone, PyInt("100")},
     user_id \in {PyNone, PyStr(<<"u1">>)},
     thumbnail_key \in {PyNone, PyStr(<<"thumbs/img1_300.jpg">>)},
     created_at \in {PyNone} \cup Datetimes}

RtIdle == [stage |-> "none"]

\* ImageService: the snapshot of an Image for the cache
RtToDict ==
    /\ rt.stage = "image"
    /\ rt' = [rt EXCEPT !.stage = "dict", !.cur = image_to_dict(rt.v)]
    /\ UNCHANGED notRt

\* CacheService.set_image_metadata: the snapshot's JSON text goes to the store
RtSet ==
    /\ rt.stage = "dict"
    /\ rt' = [rt EXCEPT !.stage = "stored", !.cur = json_dumps(rt.cur)]
    /\ UNCHANGED notRt

\* CacheService.get_image_metadata: the text is read and parsed
RtGet ==
    /\ rt.stage = "stored"
    /\ rt' = [rt EXCEPT !.stage = "loaded", !.cur = json_loads(rt.cur)]
    /\ UNCHANGED notRt

\* ImageService: the Image is rebuilt from the cached dict
RtToImage ==
    /\ rt.stage = "loaded"
    /\ rt' = [rt EXCEPT !.stage = "restored", !.cur = dict_to_image(rt.cur)]
    /\ UNCHANGED notRt

\* ------------------------------------------------- storage backends
Backends == {"local", "minio"}
Slots == 1..NumCallers
Callers == Backends \X Slots

\* storage keys as the application builds them: the image file and its
\* thumbnail under thumbs/
StKeys == {"img1.jpg", "thumbs/img1_300.jpg"}
Data == {"b1", "b2"}
StOps == {"save", "get", "delete", "exists"}

StIdle == [pc |-> "idle", op |-> "none", key |-> "none", data |-> "none",
           out |-> [kind |-> "none"],
           existed |-> FALSE, raced |-> FALSE]

\* outcomes of a call
Token(t) == [kind |-> "token", v |-> t]
Bytes(b) == [kind |-> "bytes", v |-> b]
Bool(b) == [kind |-> "bool", v |-> b]
NotFound == [kind |-> "not_found"]       \* FileNotFoundError raised
OtherError == [kind |-> "error"]         \* OSError, S3Error, ... raised

\* whether this step of a call meets a failure of the store
Faulty == IF faults THEN BOOLEAN ELSE {FALSE}

\* the call of caller c ends with outcome o
StDone(c, o) ==
    /\ stc' = [stc EXCEPT ![c] = [@ EXCEPT !.pc = "idle", !.out = o]]
    /\ intended' =
          [intended EXCEPT ![c[1]][stc[c].key] =
              CASE stc[c].op = "save" ->
                      IF o.kind = "token" THEN stc[c].data ELSE "unknown"
                [] stc[c].op = "delete" ->
                      IF o = Bool(TRUE) THEN "absent"
                      ELSE IF o = Bool(FALSE) THEN @
                      ELSE "unknown"
                [] OTHER -> @]

\* the call of caller c goes on to its next step
StGoto(c, l) ==
    /\ stc' = [stc EXCEPT ![c].pc = l]
    /\ UNCHANGED intended

At(c, backend, verb, l) ==
    /\ c[1] = backend
    /\ stc[c].op = verb
    /\ stc[c].pc = l

\* an exists that looks at the directory the file is in
local_exists_parent(content) == TRUE

\* Path.exists() of the file's path
local_exists(content) == content # "absent"

\* LocalStorageBackend.save: parent.mkdir(parents=True, exist_ok=True) and
\* aiofiles.open(file_path, "wb"), which creates the file or empties it
LocalSaveOpen(c) ==
    /\ At(c, "local", "save", "start")
    /\ \E fault \in Faulty :
          IF fault
          THEN StDone(c, OtherError) /\ UNCHANGED files
          ELSE /\ files' = [files EXCEPT ![stc[c].key] = ""]
               /\ StGoto(c, "write")
    /\ UNCHANGED <<objects, faults>>
    /\ UNCHANGED notSto

\* a write that leaves the file as open left it
local_write_lost(content, data) == content

\* f.write(data) and the close: the bytes go to the file that was opened; a
\* file removed since stays removed
local_write(content, data) == IF content = "absent" THEN "absent" ELSE data

\* LocalStorageBackend.save: await f.write(data); return str(file_path)
LocalSaveWrite(c) ==
    /\ At(c, "local", "save", "write")
    /\ \E fault \in Faulty :
          IF fault
          THEN StDone(c, OtherError) /\ UNCHANGED files
          ELSE /\ files' = [files EXCEPT
                               ![stc[c].key] = local_write(@, stc[c].data)]
               /\ StDone(c, Token("uploads/" \o stc[c].key))
    /\ UNCHANGED <<objects, faults>>
    /\ UNCHANGED notSto

\* LocalStorageBackend.get: `if not file_path.exists(): raise FileNotFoundError`
LocalGetExists(c) ==
    /\ At(c, "local", "get", "start")
    /\ IF ~local_exists(files[stc[c].key])
       THEN StDone(c, NotFound)
       ELSE StGoto(c, "read")
    /\ UNCHANGED <<files, objects, faults>>
    /\ UNCHANGED notSto

\* LocalStorageBackend.get: aiofiles.open(file_path, "rb") and f.read(); open
\* raises FileNotFoundError for a file removed since the test
LocalGetRead(c) ==
    /\ At(c, "local", "get", "read")
    /\ \E fault \in Faulty :
          IF files[stc[c].key] = "absent" THEN StDone(c, NotFound)
          ELSE IF fault THEN StDone(c, OtherError)
          ELSE StDone(c, Bytes(files[stc[c].key]))
    /\ UNCHANGED <<files, objects, faults>>
    /\ UNCHANGED notSto

\* a delete that removes the file without the test
LocalDeleteNoTest(c) ==
    /\ At(c, "local", "delete", "start")
    /\ StGoto(c, "remove")
    /\ UNCHANGED <<files, objects, faults>>
    /\ UNCHANGED notSto

\* LocalStorageBackend.delete: `if not file_path.exists(): return False`
LocalDeleteExists(c) ==
    /\ At(c, "local", "delete", "start")
    /\ IF ~local_exists(files[stc[c].key])
       THEN StDone(c, Bool(FALSE))
       ELSE StGoto(c, "remove")
    /\ UNCHANGED <<files, objects, faults>>
    /\ UNCHANGED notSto

\* LocalStorageBackend.delete: await aiofiles.os.remove(file_path); return
\* True.  os.remove raises FileNotFoundError for a file removed since the test.
LocalDeleteRemove(c) ==
    /\ At(c, "local", "delete", "remove")
    /\ \E fault \in Faulty :
          IF files[stc[c].key] = "absent"
          THEN StDone(c, NotFound) /\ UNCHANGED files
          ELSE IF fault
          THEN StDone(c, OtherError) /\ UNCHANGED files
          ELSE /\ files' = [files EXCEPT ![stc[c].key] = "absent"]
               /\ StDone(c, Bool(TRUE))
    /\ UNCHANGED <<objects, faults>>
    /\ UNCHANGED notSto

\* LocalStorageBackend.exists
LocalExists(c) ==
    /\ At(c, "local", "exists", "start")
    /\ StDone(c, Bool(local_exists(files[stc[c].key])))
    /\ UNCHANGED <<files, objects, faults>>
    /\ UNCHANGED notSto

\* MinioStorageBackend.save: put_object, then the s3:// location
MinioSave(c) ==
    /\ At(c, "minio", "save", "start")
    /\ \E fault \in Faulty :
          IF fault
          THEN StDone(c, OtherError) /\ UNCHANGED objects
          ELSE /\ objects' = [objects EXCEPT ![stc[c].key] = stc[c].data]
               /\ StDone(c, Token("s3://images/" \o stc[c].key))
    /\ UNCHANGED <<files, faults>>
    /\ UNCHANGED notSto

\* a get that reports every S3Error as a missing file
minio_get_all_not_found(content, fault) ==
    IF fault \/ content = "absent" THEN NotFound ELSE Bytes(content)

\* get_object and response.read(): S3Error NoSuchKey becomes
\* FileNotFoundError, every other error is raised as it is
minio_get(content, fault) ==
    IF fault THEN OtherError
    ELSE IF content = "absent" THEN NotFound
    ELSE Bytes(content)

\* MinioStorageBackend.get
MinioGet(c) ==
    /\ At(c, "minio", "get", "start")
    /\ \E fault \in Faulty : StDone(c, minio_get(objects[stc[c].key], fault))
    /\ UNCHANGED <<files, objects, faults>>
    /\ UNCHANGED notSto

\* a stat_object whose NoSuchKey is not told apart: the object counts as there
stat_object_always(content, fault) == IF fault THEN "error" ELSE "found"

\* stat_object: the object's metadata, S3Error NoSuchKey, or another error
stat_object(content, fault) ==
    IF fault THEN "error"
    ELSE IF content = "absent" THEN "NoSuchKey"
    ELSE "found"

\* MinioStorageBackend.delete: stat_object first; NoSuchKey returns False
MinioDeleteStat(c) ==
    /\ At(c, "minio", "delete", "start")
    /\ \E fault \in Faulty :
          LET r == stat_object(objects[stc[c].key], fault) IN
          IF r = "error" THEN StDone(c, OtherError)
          ELSE IF r = "NoSuchKey" THEN StDone(c, Bool(FALSE))
          ELSE StGoto(c, "remove")
    /\ UNCHANGED <<files, objects, faults>>
    /\ UNCHANGED notSto

\* MinioStorageBackend.delete: remove_object, which succeeds for an object
\* that is gone already; return True
MinioDeleteRemove(c) ==
    /\ At(c, "minio", "delete", "remove")
    /\ \E fault \in Faulty :
          IF fault
          THEN StDone(c, OtherError) /\ UNCHANGED objects
          ELSE /\ objects' = [objects EXCEPT ![stc[c].key] = "absent"]
               /\ StDone(c, Bool(TRUE))
    /\ UNCHANGED <<files, faults>>
    /\ UNCHANGED notSto

\* MinioStorageBackend.exists: stat_object; NoSuchKey returns False
MinioExists(c) ==
    /\ At(c, "minio", "exists", "start")
    /\ \E fault \in Faulty :
          LET r == stat_object(objects[stc[c].key], fault) IN
          StDone(c, IF r = "error" THEN OtherError ELSE Bool(r = "found"))
    /\ UNCHANGED <<files, objects, faults>>
    /\ UNCHANGED notSto

\* the same call is made on both backends, once the calls before it have
\* returned
StIssue(verb, k, d) ==
    /\ \A c \in Callers : stc[c].pc = "idle"
    /\ stc' = [c \in Callers |->
                IF c[2] = 1
                THEN [pc |-> "start", op |-> verb, key |-> k,
                      data |-> IF verb = "save" THEN d ELSE "none",
                      out |-> [kind |-> "pending"],
                      existed |-> FALSE, raced |-> FALSE]
                ELSE stc[c]]
    /\ UNCHANGED <<files, objects, faults, intended>>
    /\ UNCHANGED notSto

\* what the backend of caller c holds under key k
Held(c, k) == IF c[1] = "local" THEN files[k] ELSE objects[k]

\* the calls in flight that caller c's delete(k) races with: deletes of the
\* same key on the same backend that began, as this one does, while the key
\* was there
Racing(c, verb, k) ==
    {o \in Callers \ {c} :
        /\ verb = "delete" /\ Held(c, k) # "absent"
        /\ o[1] = c[1]
        /\ stc[o].pc # "idle" /\ stc[o].op = "delete" /\ stc[o].key = k
        /\ stc[o].existed}

\* a task calls one verb of a backend, whatever the other tasks are doing.
\* History: whether the key was there, and whether another delete of it was
\* in flight, which is then a call that raced as well.
StBegin(c, verb, k, d) ==
    /\ stc[c].pc = "idle"
    /\ stc' = [o \in Callers |->
                IF o = c
                THEN [pc |-> "start", op |-> verb, key |-> k,
                      data |-> IF verb = "save" THEN d ELSE "none",
                      out |-> [kind |-> "pending"],
                      existed |-> Held(c, k) # "absent",
                      raced |-> Racing(c, verb, k) # {}]
                ELSE IF o \in Racing(c, verb, k)
                THEN [stc[o] EXCEPT !.raced = TRUE]
                ELSE stc[o]]
    /\ UNCHANGED <<files, objects, faults, intended>>
    /\ UNCHANGED notSto

StoInit ==
    /\ files = [k \in StKeys |-> "absent"]
    /\ objects = [k \in StKeys |-> "absent"]
    /\ stc = [c \in Callers |-> StIdle]
    /\ intended = [b \in Backends |-> [k \in StKeys |-> "absent"]]

\* no get_status is in flight
StatusInit == rl_read = <<>>

\* ------------------------------------------------- lifespan (startup)
\* ticks of the startup clock that settings.minio_startup_timeout allows
minio_startup_timeout == 2

\* startup is over and the application serves requests
Booted ==
    [pc |-> "running", backend |-> "local", cache_enabled |-> TRUE,
     cache_service |-> "connected", store_up |-> TRUE, bucket |-> TRUE,
     clock |-> 0, checks |-> 0, makes |-> 0, error |-> "none"]

BootInit == boot = Booted

\* the process starts: settings.storage_backend and settings.cache_enabled as
\* configured, the bucket there or not, the counter store reachable or not
BootStart ==
    boot \in [pc : {"start"}, backend : {"minio", "local"},
              cache_enabled : BOOLEAN, cache_service : {"none"},
              store_up : BOOLEAN, bucket : BOOLEAN,
              clock : {0}, checks : {0}, makes : {0}, error : {"none"}]

\* where MinioStorageBackend.create() waits for the object store
BucketWait == {"bucket_exists", "make_bucket"}

\* lifespan creates the storage backend: the local one at once; the networked
\* one through create(), which starts the bucket check under the timeout
CreateStorage ==
    /\ boot.pc = "start"
    /\ boot' = IF boot.backend = "minio"
               THEN [boot EXCEPT !.pc = "bucket_exists", !.checks = @ + 1]
               ELSE [boot EXCEPT !.pc = "cache"]
    /\ UNCHANGED <<rlVars, notBoot>>

\* _ensure_bucket: client.bucket_exists answers; a missing bucket is made next
BucketExistsReply ==
    /\ boot.pc = "bucket_exists"
    /\ \E raised \in BOOLEAN :
          boot' = IF raised
                  THEN [boot EXCEPT !.pc = "failed", !.error = "S3Error"]
                  ELSE IF boot.bucket
                  THEN [boot EXCEPT !.pc = "cache"]
                  ELSE [boot EXCEPT !.pc = "make_bucket", !.makes = @ + 1]
    /\ UNCHANGED <<rlVars, notBoot>>

\* _ensure_bucket: client.make_bucket answers; BucketAlreadyOwnedByYou (the
\* bucket was made meanwhile) is passed over, any other S3Error is raised
MakeBucketReply ==
    /\ boot.pc = "make_bucket"
    /\ \E code \in {"made", "BucketAlreadyOwnedByYou", "AccessDenied"} :
          boot' = IF code = "AccessDenied"
                  THEN [boot EXCEPT !.pc = "failed", !.error = "S3Error"]
                  ELSE [boot EXCEPT !.pc = "cache", !.bucket = TRUE]
    /\ UNCHANGED <<rlVars, notBoot>>

\* time passes while create() waits, up to the deadline of its timeout
StartupTick ==
    /\ boot.pc \in BucketWait
    /\ boot.clock < minio_startup_timeout
    /\ boot' = [boot EXCEPT !.clock = @ + 1]
    /\ UNCHANGED <<rlVars, notBoot>>

\* a create() without the timeout
StartupTimeoutNever ==
    /\ boot.pc \in BucketWait
    /\ FALSE
    /\ UNCHANGED vars

\* the deadline of create()'s timeout has come with the object store still
\* silent: create() raises TimeoutError and lifespan ends with it
StartupTimeout ==
    /\ boot.pc \in BucketWait
    /\ boot.clock = minio_startup_timeout
    /\ boot' = [boot EXCEPT !.pc = "failed", !.error = "TimeoutError"]
    /\ UNCHANGED <<rlVars, notBoot>>

\* lifespan: CacheService(...).connect() when settings.cache_enabled; a failed
\* connect leaves cache_service None
CacheConnect ==
    /\ boot.pc = "cache"
    /\ boot' = [boot EXCEPT
                  !.pc = "limiter",
                  !.cache_service = IF ~boot.cache_enabled THEN "none"
                                    ELSE IF boot.store_up THEN "connected"
                                    ELSE "failed"]
    /\ UNCHANGED <<rlVars, notBoot>>

\* a limiter whose client connects by itself whenever it is used
redis_client_lazy(cache_service) == TRUE

\* redis_client = cache_service._client if cache_service else None
redis_client(cache_service) == cache_service = "connected"

\* lifespan: RateLimiter(redis_client=...), then the application serves
CreateRateLimiter ==
    /\ boot.pc = "limiter"
    /\ rl_client' = redis_client(boot.cache_service)
    /\ boot' = [boot EXCEPT !.pc = "running"]
    /\ UNCHANGED <<rl_enabled, counter, rl_pc, rl_id, rl_result, rl_status,
                   calls, granted>>
    /\ UNCHANGED notBoot

\* the counter store goes away or comes back
StoreFlip ==
    /\ boot' = [boot EXCEPT !.store_up = ~@]
    /\ UNCHANGED <<rlVars, notBoot>>

\* ------------------------------------------------- ThumbnailService
\* a metadata read that is not under way and has returned nothing yet
NoRead == [pc |-> "idle", snap |-> "none", after |-> FALSE, shown |-> "none",
           status |-> "none"]

\* An uploaded image without thumbnail: its row has no thumbnail_key, the
\* cache holds no snapshot of it, no task is at work.  The cache is connected
\* and its store answers every call.
ThumbInit ==
    thumb = [row |-> "none", entry |-> "none", gen |-> "idle",
             returned |-> FALSE, rd |-> [t \in Workers |-> NoRead]]

AuxInit == StatusInit /\ BootInit /\ ThumbInit

ExtInit == rt = RtIdle /\ StoInit /\ faults = FALSE /\ AuxInit

\* ------------------------------------------------- CacheService
\* What a key of the cache store can hold, by what the readers make of it:
\*   "none"          no key
\*   "image"         json.dumps of a field snapshot, as set_image_metadata writes
\*   "corrupt"       text, not empty, that json.loads rejects
\*   "blank"         the empty text
\*   "falsy"         JSON of an empty value ({}, [], 0, null)
\*   "not_snapshot"  JSON of a non-empty value that is no complete field
\*                   snapshot ([1], {"bogus": 1}, {"id": "x"})
EntryKinds == {"image", "corrupt", "blank", "falsy", "not_snapshot"}

\* whether a call to the store is answered; otherwise it raises RedisError,
\* or the service has no client and does not call at all
Answers == IF cache_up THEN BOOLEAN ELSE {FALSE}

\* a lookup that takes an unanswered call for data it cannot use
get_lookup_error_as_data(e, answered) ==
    IF ~answered THEN "not_snapshot"
    ELSE IF e \in {"none", "blank"} THEN "miss"
    ELSE IF e = "corrupt" THEN "decode_error"
    ELSE e

\* get_image_metadata up to its first await's reply: "miss" (None: no client,
\* RedisError, no key, empty text), "decode_error" (json.loads raised
\* JSONDecodeError), or the kind of the value that json.loads returned
get_lookup(e, answered) ==
    IF ~answered \/ e \in {"none", "blank"} THEN "miss"
    ELSE IF e = "corrupt" THEN "decode_error"
    ELSE e

\* a set_image_metadata that reports success whatever the store did
set_image_metadata_always_true(e, answered) ==
    [ok |-> TRUE, entry |-> IF answered THEN "image" ELSE e]

\* set_image_metadata: setex of the serialized snapshot; False without client
\* or on RedisError.  Result: the return value and the entry afterwards.
set_image_metadata(e, answered) ==
    [ok |-> answered, entry |-> IF answered THEN "image" ELSE e]

\* an invalidate_image that reports the delete and leaves the key
invalidate_image_keeps(e, answered) == [ok |-> answered, entry |-> e]

\* an invalidate_image that returns whether DEL removed a key
invalidate_image_by_count(e, answered) ==
    [ok |-> answered /\ e # "none", entry |-> IF answered THEN "none" ELSE e]

\* invalidate_image: DEL key; True also when there was no key, False without
\* client or on RedisError
invalidate_image(e, answered) ==
    [ok |-> answered, entry |-> IF answered THEN "none" ELSE e]

\* ------------------------------------------------- ImageService
NoOp == [kind |-> "none"]

\* An image id is a uuid4, never generated twice.  The model has finitely many
\* names for them and gives a name to a new image once nothing in the system
\* refers to the image that bore it: no row, no object, no cache entry, no
\* call in flight.
Fresh(i) ==
    /\ db[i] = "absent"
    /\ i \notin blobs
    /\ cache[i] = "none"
    /\ \A t \in Tasks : op[t].kind # "none" => op[t].image # i

\* can_delete(image, user_id, delete_token) for an authenticated caller and an
\* image with an owner: (authorized, reason)
can_delete(owner, user) ==
    IF owner = user THEN <<TRUE, "owner">> ELSE <<FALSE, "not_owner">>

\* what upload_image answers when its body ends with r: the error raised in
\* it (400 for an invalid file, 500 for an exception of upload) or 201
http_response(r) ==
    IF r.kind = "http" THEN r
    ELSE IF r.kind = "raised" THEN [kind |-> "http", status |-> 500]
    ELSE [kind |-> "http", status |-> 201]

\* an upload handler whose finally block is skipped when the body raised
FinishNoReleaseOnError(t, r) ==
    /\ last' = [call |-> IF handler[t] THEN http_response(r) ELSE r,
                handler |-> handler[t]]
    /\ op' = [op EXCEPT ![t] = NoOp]
    /\ pc' = [pc EXCEPT ![t] = "idle"]
    /\ handler' = [handler EXCEPT ![t] = FALSE]
    /\ IF handler[t] /\ r.kind \notin {"raised", "http"}
       THEN ReleaseCall
       ELSE UNCHANGED <<semaphore, fut, active_count, released>>
    /\ UNCHANGED <<must_cancel, strays>>

\* A call of task t ends with r.  In the upload handler the finally block
\* runs in the same step: the slot is released.
Finish(t, r) ==
    /\ last' = [call |-> IF handler[t] THEN http_response(r) ELSE r,
                handler |-> handler[t]]
    /\ op' = [op EXCEPT ![t] = NoOp]
    /\ pc' = [pc EXCEPT ![t] = "idle"]
    /\ handler' = [handler EXCEPT ![t] = FALSE]
    /\ IF handler[t]
       THEN ReleaseCall
       ELSE UNCHANGED <<semaphore, fut, active_count, released>>
    /\ UNCHANGED <<must_cancel, strays>>

\* task t goes on to the step at label l
Goto(t, l) ==
    /\ pc' = [pc EXCEPT ![t] = l]
    /\ UNCHANGED <<semaphore, fut, active_count, released, must_cancel, strays,
                   handler, last>>

\* what get_by_id_with_cache_status returns; complete: every field of the
\* Image is set
GetResult(i, found, status, complete) ==
    [kind |-> "get", image |-> i, found |-> found, status |-> status,
     complete |-> complete]

\* a first await that looks into the cache whatever use_cache says
GetStartIgnoresUseCache(t, i, use_cache) ==
    /\ pc[t] = "idle"
    /\ IF cache_on
       THEN \E answered \in Answers :
               LET v == get_lookup(cache[i], answered) IN
               IF v = "image"
               THEN Finish(t, GetResult(i, TRUE, "HIT", TRUE))
               ELSE /\ op' = [op EXCEPT ![t] = [kind |-> "get", image |-> i]]
                    /\ Goto(t, "get_db")
       ELSE Finish(t, GetResult(i, db[i] # "absent", "DISABLED", TRUE))
    /\ UNCHANGED <<cache_up, cache_on, db, cache, blobs, deleted>>
    /\ UNCHANGED notImg

\* get_by_id_with_cache_status(image_id, use_cache), first await.  With a
\* cache in use: get_image_metadata.  A snapshot is returned as HIT; a value
\* that is no complete snapshot goes to _dict_to_image as well, which raises
\* (no dict, unknown field, bad created_at) or builds an Image with fields
\* missing; text that does not parse goes on to the cleanup delete; None or
\* an empty value goes on to the database.  Without a cache in use: the
\* database read, tagged DISABLED.
GetStart(t, i, use_cache) ==
    /\ pc[t] = "idle"
    /\ IF use_cache /\ cache_on
       THEN \E answered \in Answers :
               LET v == get_lookup(cache[i], answered) IN
               IF v = "image"
               THEN Finish(t, GetResult(i, TRUE, "HIT", TRUE))
               ELSE IF v = "not_snapshot"
               THEN \E built \in BOOLEAN :
                       IF built
                       THEN Finish(t, GetResult(i, TRUE, "HIT", FALSE))
                       ELSE Finish(t, [kind |-> "get_raised", image |-> i])
               ELSE /\ op' = [op EXCEPT ![t] = [kind |-> "get", image |-> i]]
                    /\ Goto(t, IF v = "decode_error" THEN "get_inval"
                                                     ELSE "get_db")
       ELSE Finish(t, GetResult(i, db[i] # "absent", "DISABLED", TRUE))
    /\ UNCHANGED <<cache_up, cache_on, db, cache, blobs, deleted>>
    /\ UNCHANGED notImg

\* get_image_metadata after JSONDecodeError: invalidate_image(image_id), its
\* return value ignored, then None.  Called through CacheService alone the
\* call ends here; inside get_by_id_with_cache_status the database is next.
GetInvalidate(t) ==
    /\ pc[t] = "get_inval"
    /\ \E answered \in Answers :
          LET i == op[t].image
              r == invalidate_image(cache[i], answered)
          IN /\ cache' = [cache EXCEPT ![i] = r.entry]
             /\ IF op[t].kind = "cache_get"
                THEN Finish(t, [kind |-> "cache_get", image |-> i,
                                ret |-> "miss", cleanup |-> <<r.ok>>])
                ELSE Goto(t, "get_db") /\ UNCHANGED op
    /\ UNCHANGED <<cache_up, cache_on, db, blobs, deleted>>
    /\ UNCHANGED notImg

\* the database read after a miss; only a found image is written to the cache
GetDb(t) ==
    /\ pc[t] = "get_db"
    /\ IF db[op[t].image] # "absent"
       THEN Goto(t, "get_set") /\ UNCHANGED op
       ELSE Finish(t, GetResult(op[t].image, FALSE, "MISS", TRUE))
    /\ UNCHANGED <<cache_up, cache_on, db, cache, blobs, deleted>>
    /\ UNCHANGED notImg

\* set_image_metadata after the database read, its return value ignored
GetSet(t) ==
    /\ pc[t] = "get_set"
    /\ \E answered \in Answers :
          cache' = [cache EXCEPT
                       ![op[t].image] = set_image_metadata(@, answered).entry]
    /\ Finish(t, GetResult(op[t].image, TRUE, "MISS", TRUE))
    /\ UNCHANGED <<cache_up, cache_on, db, blobs, deleted>>
    /\ UNCHANGED notImg

\* ------------------------------------------------- CacheService called directly
\* get_image_metadata(image_id): the value that json.loads returned, or None
CacheGet(t, i) ==
    /\ pc[t] = "idle"
    /\ \E answered \in Answers :
          LET v == get_lookup(cache[i], answered) IN
          IF v = "decode_error"
          THEN /\ op' = [op EXCEPT ![t] = [kind |-> "cache_get", image |-> i]]
               /\ Goto(t, "get_inval")
          ELSE Finish(t, [kind |-> "cache_get", image |-> i, ret |-> v,
                          cleanup |-> <<>>])
    /\ UNCHANGED <<cache_up, cache_on, db, cache, blobs, deleted>>
    /\ UNCHANGED notImg

\* set_image_metadata(image_id, metadata)
CacheSet(t, i) ==
    /\ pc[t] = "idle"
    /\ \E answered \in Answers :
          LET r == set_image_metadata(cache[i], answered) IN
          /\ cache' = [cache EXCEPT ![i] = r.entry]
          /\ Finish(t, [kind |-> "cache_set", image |-> i, ok |-> r.ok])
    /\ UNCHANGED <<cache_up, cache_on, db, blobs, deleted>>
    /\ UNCHANGED notImg

\* invalidate_image(image_id); answered: the store replied to the DEL
CacheInvalidate(t, i) ==
    /\ pc[t] = "idle"
    /\ \E answered \in Answers :
          LET r == invalidate_image(cache[i], answered) IN
          /\ cache' = [cache EXCEPT ![i] = r.entry]
          /\ Finish(t, [kind |-> "cache_invalidate", image |-> i, ok |-> r.ok,
                        answered |-> answered])
    /\ UNCHANGED <<cache_up, cache_on, db, blobs, deleted>>
    /\ UNCHANGED notImg

\* another writer of the store puts text under an image's key
StoreWrite(i, e) ==
    /\ cache[i] # e
    /\ cache' = [cache EXCEPT ![i] = e]
    /\ UNCHANGED <<cache_up, cache_on, db, blobs, op, handler, last, deleted>>
    /\ UNCHANGED <<semVars, notImg>>

\* delete(image_id, user_id), first await: the database read that bypasses the
\* cache, then the authorization check
DeleteStart(t, i, u) ==
    /\ pc[t] = "idle"
    /\ IF db[i] = "absent"
       THEN Finish(t, [kind |-> "delete", image |-> i, ok |-> FALSE,
                       reason |-> "not_found"])
       ELSE IF ~can_delete(db[i], u)[1]
       THEN Finish(t, [kind |-> "delete", image |-> i, ok |-> FALSE,
                       reason |-> can_delete(db[i], u)[2]])
       ELSE /\ op' = [op EXCEPT ![t] = [kind |-> "delete", image |-> i,
                                        swallowed |-> FALSE]]
            /\ Goto(t, "del_storage")
    /\ UNCHANGED <<cache_up, cache_on, db, cache, blobs, deleted>>
    /\ UNCHANGED notImg

\* a delete that lets the exception of storage.delete through
DeleteStoragePropagates(t) ==
    /\ pc[t] = "del_storage"
    /\ \E raised \in BOOLEAN :
          IF raised
          THEN /\ Finish(t, [kind |-> "raised", image |-> op[t].image])
               /\ UNCHANGED blobs
          ELSE /\ blobs' = blobs \ {op[t].image}
               /\ Goto(t, IF cache_on THEN "del_cache" ELSE "del_db")
               /\ UNCHANGED op
    /\ UNCHANGED <<cache_up, cache_on, db, cache, deleted>>
    /\ UNCHANGED notImg

\* storage.delete(storage_key); an exception is logged and swallowed, which
\* the call remembers here as history
DeleteStorage(t) ==
    /\ pc[t] = "del_storage"
    /\ \E raised \in BOOLEAN :
          /\ blobs' = IF raised THEN blobs ELSE blobs \ {op[t].image}
          /\ op' = [op EXCEPT ![t].swallowed = raised]
    /\ Goto(t, IF cache_on THEN "del_cache" ELSE "del_db")
    /\ UNCHANGED <<cache_up, cache_on, db, cache, deleted>>
    /\ UNCHANGED notImg

\* cache.invalidate_image(image_id): DEL, or False on RedisError
DeleteCache(t) ==
    /\ pc[t] = "del_cache"
    /\ \E answered \in Answers :
          cache' = [cache EXCEPT
                       ![op[t].image] = invalidate_image(@, answered).entry]
    /\ Goto(t, "del_db")
    /\ UNCHANGED <<cache_up, cache_on, db, blobs, op, deleted>>
    /\ UNCHANGED notImg

\* db.delete(image); db.commit(): the row is removed and delete returns
\* (True, "deleted"); a row already removed by another delete makes the
\* commit raise
DeleteDb(t) ==
    /\ pc[t] = "del_db"
    /\ LET i == op[t].image IN
       IF db[i] # "absent"
       THEN /\ db' = [db EXCEPT ![i] = "absent"]
            /\ deleted' = deleted \cup {i}
            /\ Finish(t, [kind |-> "delete", image |-> i, ok |-> TRUE,
                          reason |-> "deleted"])
       ELSE /\ UNCHANGED <<db, deleted>>
            /\ Finish(t, [kind |-> "raised", image |-> i])
    /\ UNCHANGED <<cache_up, cache_on, cache, blobs>>
    /\ UNCHANGED notImg

\* an upload that goes on to the database when storage.save raised
UploadSaveFailOpen(t, i, u) ==
    /\ Fresh(i)
    /\ deleted' = deleted \ {i}
    /\ \E raised \in BOOLEAN :
          /\ blobs' = IF raised THEN blobs ELSE blobs \cup {i}
          /\ op' = [op EXCEPT ![t] = [kind |-> "upload", image |-> i,
                                      user |-> u]]
          /\ Goto(t, "up_commit")
    /\ UNCHANGED <<cache_up, cache_on, db, cache>>
    /\ UNCHANGED notImg

\* upload(data, ..., user_id) up to storage.save(storage_key, ...): the keys
\* are generated, the object is stored; an exception of save propagates
UploadSave(t, i, u) ==
    /\ Fresh(i)
    /\ deleted' = deleted \ {i}
    /\ \E raised \in BOOLEAN :
          IF raised
          THEN /\ Finish(t, [kind |-> "raised", image |-> i])
               /\ UNCHANGED blobs
          ELSE /\ blobs' = blobs \cup {i}
               /\ op' = [op EXCEPT ![t] = [kind |-> "upload", image |-> i,
                                           user |-> u]]
               /\ Goto(t, "up_commit")
    /\ UNCHANGED <<cache_up, cache_on, db, cache>>
    /\ UNCHANGED notImg

\* db.add(image); db.commit(); db.refresh(image)
UploadCommit(t) ==
    /\ pc[t] = "up_commit"
    /\ LET i == op[t].image IN
       \E raised \in BOOLEAN :
          IF raised
          THEN /\ Finish(t, [kind |-> "raised", image |-> i])
               /\ UNCHANGED db
          ELSE /\ db' = [db EXCEPT ![i] = op[t].user]
               /\ IF cache_on
                  THEN Goto(t, "up_cache") /\ UNCHANGED op
                  ELSE Finish(t, [kind |-> "upload", image |-> i])
    /\ UNCHANGED <<cache_up, cache_on, cache, blobs, deleted>>
    /\ UNCHANGED notImg

\* the trailing cache write of upload: set_image_metadata(image.id, ...)
UploadCache(t) ==
    /\ pc[t] = "up_cache"
    /\ \E answered \in Answers :
          cache' = [cache EXCEPT
                       ![op[t].image] = set_image_metadata(@, answered).entry]
    /\ Finish(t, [kind |-> "upload", image |-> op[t].image])
    /\ UNCHANGED <<cache_up, cache_on, db, blobs, deleted>>
    /\ UNCHANGED notImg

\* ImageService.upload called directly
UploadStart(t, i, u) ==
    /\ pc[t] = "idle"
    /\ UploadSave(t, i, u)

\* ------------------------------------------------- upload_image handler
\* check_rate_limit(request), the route's dependency: no limiter or a check
\* that is allowed lets the request through; a denial is answered 429 with
\* Retry-After.  The check is check(client_ip) as above, its batch one unit.
HandlerStart(t, i) ==
    /\ pc[t] = "idle"
    /\ \E answered \in BOOLEAN :
          LET r == pipeline_execute(counter[make_key(i)], window_seconds)
              d == IF ~rl_enabled THEN fail_open(i, "disabled")
                   ELSE IF ~rl_client THEN fail_open(i, "no_client")
                   ELSE IF ~answered THEN fail_open(i, "error")
                   ELSE decision(i, r.count, r.ttl, calls[i] + 1, FALSE)
          IN /\ d.path = "ok" => counter[make_key(i)].count < MaxCount
             /\ IF d.path = "ok"
                THEN /\ counter' = [counter EXCEPT ![make_key(i)] = r.entry]
                     /\ calls' = [calls EXCEPT ![i] = @ + 1]
                     /\ granted' = Grant(granted, i, d.allowed)
                ELSE UNCHANGED <<counter, calls, granted>>
             /\ IF d.allowed
                THEN /\ pc' = [pc EXCEPT ![t] = "h_acquire"]
                     /\ handler' = [handler EXCEPT ![t] = TRUE]
                     /\ UNCHANGED last
                ELSE /\ last' = [call |-> [kind |-> "http", status |-> 429,
                                           retry_after |-> d.retry_after],
                                 handler |-> TRUE]
                     /\ UNCHANGED <<pc, handler>>
    /\ UNCHANGED <<semaphore, fut, must_cancel, active_count, released, strays>>
    /\ UNCHANGED <<rl_status, rl_enabled, rl_client, rl_pc, rl_id, rl_result>>
    /\ UNCHANGED <<cache_up, cache_on, db, cache, blobs, op, deleted>>
    /\ UNCHANGED extVars

\* the handler's body starts: acquire_with_timeout() before the file is read
HandlerAcquire(t) ==
    /\ pc[t] = "h_acquire"
    /\ AcquireBegin(t, "h_read")
    /\ must_cancel' = [must_cancel EXCEPT ![t] = FALSE]
    /\ UNCHANGED <<released, strays>>
    /\ UNCHANGED notSem

\* a handler that goes on to read the file whatever acquire returned
HandlerResumeNoCheck(t) ==
    /\ handler[t]
    /\ AcquireResume(t, "h_read", "h_read")
    /\ UNCHANGED <<last, handler>>
    /\ must_cancel' = [must_cancel EXCEPT ![t] = FALSE]
    /\ UNCHANGED <<released, strays>>
    /\ UNCHANGED notImg
    /\ UNCHANGED <<cache_up, cache_on, db, cache, blobs, op, deleted>>

\* the waiting handler runs again: on True it goes on to read the file, on
\* False it answers 503 before the try block, so nothing is released
HandlerResume(t) ==
    /\ handler[t]
    /\ AcquireResume(t, "h_read", "idle")
    /\ IF pc'[t] = "idle"
       THEN /\ last' = [call |-> [kind |-> "http", status |-> 503], handler |-> TRUE]
            /\ handler' = [handler EXCEPT ![t] = FALSE]
       ELSE UNCHANGED <<last, handler>>
    /\ must_cancel' = [must_cancel EXCEPT ![t] = FALSE]
    /\ UNCHANGED <<released, strays>>
    /\ UNCHANGED notImg
    /\ UNCHANGED <<cache_up, cache_on, db, cache, blobs, op, deleted>>

\* file.read() and validate_image_file: an invalid file is answered 400 from
\* inside the try block; a valid one goes on to service.upload
HandlerRead(t) ==
    /\ pc[t] = "h_read"
    /\ \E valid \in BOOLEAN :
          IF valid
          THEN Goto(t, "up_save") /\ UNCHANGED op
          ELSE Finish(t, [kind |-> "http", status |-> 400])
    /\ UNCHANGED <<cache_up, cache_on, db, cache, blobs, deleted>>
    /\ UNCHANGED notImg

\* service.upload(...) called by the handler for the authenticated user
HandlerUpload(t, i, u) ==
    /\ pc[t] = "up_save"
    /\ UploadSave(t, i, u)

\* delete(image_id, user_id) by the image's owner, run to its end by a request
\* outside the modelled tasks while no modelled call works on the image, no
\* step of it failing: object, cache entry and row are gone, and the id is
\* free to name another image
DeleteDone(i) ==
    /\ db[i] # "absent"
    /\ \A t \in Tasks : op[t].kind # "none" => op[t].image # i
    /\ blobs' = blobs \ {i}
    /\ cache' = [cache EXCEPT ![i] = "none"]
    /\ db' = [db EXCEPT ![i] = "absent"]
    /\ deleted' = deleted \ {i}
    /\ UNCHANGED <<cache_up, cache_on, op, handler, last>>
    /\ UNCHANGED <<semVars, notImg>>

\* a cache entry's time to live runs out
CacheExpires(i) ==
    /\ cache[i] # "none"
    /\ cache' = [cache EXCEPT ![i] = "none"]
    /\ UNCHANGED <<cache_up, cache_on, db, blobs, op, handler, last, deleted>>
    /\ UNCHANGED <<semVars, notImg>>

ImgInit ==
    /\ cache_on \in BOOLEAN
    /\ cache_up \in BOOLEAN
    /\ db = [i \in Images |-> "absent"]
    /\ cache = [i \in Images |-> "none"]
    /\ blobs = {}
    /\ op = [t \in Tasks |-> NoOp]
    /\ handler = [t \in Tasks |-> FALSE]
    /\ last = [call |-> [kind |-> "none"], handler |-> FALSE]
    /\ deleted = {}

Init ==
    SemInit /\ RLInit /\ ExtInit /\ ImgInit /\ rl_enabled /\ rl_client /\ cache_on /\ cache_up

\* matched use: release() only by the holder of a slot
SemNext ==
    \E t \in Tasks :
        \/ Acquire(t)
        \/ TimeoutFires(t)
        \/ Resume(t)
        \/ Release(t)

\* any sequence of calls: release() also without a matching acquire
SemAnyNext ==
    \E t \in Tasks :
        \/ Acquire(t)
        \/ TimeoutFires(t)
        \/ Resume(t)
        \/ Release(t)
        \/ StrayRelease(t)

SpecSem == Init /\ [][SemNext]_vars
SpecSemAny == Init /\ [][SemAnyNext]_vars

\* The event loop at work: the timer of asyncio.timeout(self.timeout) is a
\* loop.call_at handle that the loop runs once its deadline has passed, and a
\* task whose future is done or cancelled is scheduled with call_soon and
\* run.  Nothing is assumed of the tasks that hold a slot: no release is
\* required to happen.
SemFairness ==
    \A t \in Tasks : WF_vars(TimeoutFires(t)) /\ WF_vars(Resume(t))

SpecSemLive == Init /\ [][SemAnyNext]_vars /\ SemFairness

\* the rate limiter alone, under every configuration
RLSpecInit == SemInit /\ RLInit /\ ExtInit /\ ImgInit /\ cache_on /\ cache_up

RLNext ==
    \/ \E c \in Clients, i \in Idents : CheckCall(c, i)
    \/ \E c \in Clients : CheckExecute(c)
    \/ \E c \in Clients : CheckRedisError(c)
    \/ \E i \in Idents : Reset(i)
    \/ Tick

SpecRL == RLSpecInit /\ [][RLNext]_vars

\* ------------------------------------------------- thumbnail task and readers
\* the snapshot _image_to_dict makes of a row: with the thumbnail_key or not
snapshot(row) == IF row = "key" THEN "new" ELSE "old"

\* generate_and_store_thumbnail(image_id), the SELECT: a row that has its
\* thumbnail_key ends the call with True
ThumbSelect ==
    /\ thumb.gen = "idle"
    /\ thumb' = IF thumb.row = "key"
                THEN [thumb EXCEPT !.returned = TRUE]
                ELSE [thumb EXCEPT !.gen = "save"]
    /\ UNCHANGED notThumb

\* storage.get, generate_thumbnail_bytes, storage.save(thumbnail_key, ...): any
\* of them failing ends the call with False
ThumbSave ==
    /\ thumb.gen = "save"
    /\ \E failed \in BOOLEAN :
          thumb' = [thumb EXCEPT !.gen = IF failed THEN "idle" ELSE "commit"]
    /\ UNCHANGED notThumb

\* update(Image).values(thumbnail_key=...); db.commit()
ThumbCommit ==
    /\ thumb.gen = "commit"
    /\ thumb' = [thumb EXCEPT !.row = "key", !.gen = "invalidate"]
    /\ UNCHANGED notThumb

\* cache.invalidate_image(image_id), then return True
ThumbInvalidate ==
    /\ thumb.gen = "invalidate"
    /\ thumb' = [thumb EXCEPT !.entry = invalidate_image(@, TRUE).entry,
                              !.gen = "idle", !.returned = TRUE]
    /\ UNCHANGED notThumb

\* get_by_id_with_cache_status(image_id): the cache lookup; a snapshot found is
\* returned as a HIT.  History: whether the thumbnail task had returned True
\* when the read began.
ThumbReadStart(t) ==
    /\ thumb.rd[t].pc = "idle"
    /\ thumb' = IF thumb.entry # "none"
                THEN [thumb EXCEPT !.rd[t] = [pc |-> "idle", snap |-> "none",
                                              after |-> thumb.returned,
                                              shown |-> thumb.entry,
                                              status |-> "HIT"]]
                ELSE [thumb EXCEPT !.rd[t] = [pc |-> "db", snap |-> "none",
                                              after |-> thumb.returned,
                                              shown |-> "none",
                                              status |-> "none"]]
    /\ UNCHANGED notThumb

\* the database read after the miss
ThumbReadDb(t) ==
    /\ thumb.rd[t].pc = "db"
    /\ thumb' = [thumb EXCEPT !.rd[t].pc = "set",
                              !.rd[t].snap = snapshot(thumb.row)]
    /\ UNCHANGED notThumb

\* set_image_metadata(image_id, snapshot), then the Image read is returned
\* as a MISS
ThumbReadSet(t) ==
    /\ thumb.rd[t].pc = "set"
    /\ thumb' = [thumb EXCEPT !.entry = thumb.rd[t].snap,
                              !.rd[t].pc = "idle",
                              !.rd[t].shown = thumb.rd[t].snap,
                              !.rd[t].status = "MISS"]
    /\ UNCHANGED notThumb

\* the entry's time to live ends
ThumbEntryExpires ==
    /\ thumb.entry # "none"
    /\ thumb' = [thumb EXCEPT !.entry = "none"]
    /\ UNCHANGED notThumb

\* the thumbnail task of one image and concurrent metadata reads of it
ThumbNext ==
    \/ ThumbSelect
    \/ ThumbSave
    \/ ThumbCommit
    \/ ThumbInvalidate
    \/ \E t \in Workers : ThumbReadStart(t)
    \/ \E t \in Workers : ThumbReadDb(t)
    \/ \E t \in Workers : ThumbReadSet(t)
    \/ ThumbEntryExpires

SpecThumb == Init /\ [][ThumbNext]_vars

\* The process from its start: lifespan, then checks served with the limiter
\* that lifespan made, the counter store coming and going.  A batch runs when
\* the store is reachable and raises RedisError when it is not.
StartupInit ==
    /\ SemInit /\ RLInit /\ ImgInit
    /\ rt = RtIdle /\ StoInit /\ faults = FALSE /\ StatusInit /\ ThumbInit
    /\ BootStart
    /\ ~rl_client /\ cache_on /\ cache_up

StartupNext ==
    \/ CreateStorage
    \/ BucketExistsReply
    \/ MakeBucketReply
    \/ StartupTick
    \/ StartupTimeout
    \/ CacheConnect
    \/ CreateRateLimiter
    \/ StoreFlip
    \/ \E c \in Clients, i \in Idents : boot.pc = "running" /\ CheckCall(c, i)
    \/ \E c \in Clients : boot.store_up /\ CheckExecute(c)
    \/ \E c \in Clients : ~boot.store_up /\ CheckRedisError(c)

SpecStartup == StartupInit /\ [][StartupNext]_vars

\* The event loop at work during startup: time passes, and the timer of
\* create()'s timeout runs once its deadline has come.  Nothing is assumed of
\* the object store: it may never answer.
StartupFairness == WF_vars(StartupTick) /\ WF_vars(StartupTimeout)

SpecStartupLive == SpecStartup /\ StartupFairness

\* the limiter with a client and a store that answers, no reset, over the
\* windows of each key, with the history of the allowed checks kept
WindowsInit ==
    /\ SemInit /\ ExtInit /\ ImgInit /\ cache_on /\ cache_up
    /\ rl_enabled = TRUE
    /\ rl_client = TRUE
    /\ counter = [k \in Keys |-> NoKey]
    /\ rl_pc = [c \in Clients |-> "idle"]
    /\ rl_id = [c \in Clients |-> "ip1"]
    /\ rl_result = [c \in Clients |-> NoResult]
    /\ rl_status = NoResult
    /\ calls = [i \in Idents |-> 0]
    /\ granted = [NoHistory EXCEPT !.kept = TRUE]

WindowsNext ==
    \/ \E c \in Clients, i \in Idents : CheckCall(c, i)
    \/ \E c \in Clients : CheckExecute(c)
    \/ Tick

SpecWindows == WindowsInit /\ [][WindowsNext]_vars

\* the limiter with its three operations, inside one window of each key
RLStatusNext ==
    \/ \E c \in Clients, i \in Idents : CheckCall(c, i)
    \/ \E c \in Clients : CheckExecute(c)
    \/ \E c \in Clients : CheckRedisError(c)
    \/ \E i \in Idents : Reset(i)
    \/ \E i \in Idents : GetStatusGet(i)
    \/ GetStatusTtl
    \/ GetStatusRedisError

SpecRLStatus == RLSpecInit /\ [][RLStatusNext]_vars

\* ImageService alone: reads, uploads and deletes by concurrent tasks, with
\* and without a cache
ImgSpecInit == SemInit /\ RLInit /\ ExtInit /\ ImgInit /\ rl_enabled /\ rl_client /\ cache_up

ImgNext ==
    \/ \E t \in Workers, i \in Images, use_cache \in BOOLEAN :
          GetStart(t, i, use_cache)
    \/ \E t \in Workers : GetDb(t)
    \/ \E t \in Workers : GetSet(t)
    \/ \E t \in Workers, i \in Images, u \in Users : DeleteStart(t, i, u)
    \/ \E t \in Workers : DeleteStorage(t)
    \/ \E t \in Workers : DeleteCache(t)
    \/ \E t \in Workers : DeleteDb(t)
    \/ \E t \in Workers, i \in Images, u \in Users : UploadStart(t, i, u)
    \/ \E t \in Workers : UploadCommit(t)
    \/ \E t \in Workers : UploadCache(t)
    \/ \E i \in Images : CacheExpires(i)

SpecImg == ImgSpecInit /\ [][ImgNext]_vars

\* ImageService with uploads and deletes only, by concurrent tasks
DeleteNext ==
    \/ \E t \in Workers, i \in Images, u \in Users : DeleteStart(t, i, u)
    \/ \E t \in Workers : DeleteStorage(t)
    \/ \E t \in Workers : DeleteCache(t)
    \/ \E t \in Workers : DeleteDb(t)
    \/ \E t \in Workers, i \in Images, u \in Users : UploadStart(t, i, u)
    \/ \E t \in Workers : UploadCommit(t)
    \/ \E t \in Workers : UploadCache(t)

SpecDelete == ImgSpecInit /\ [][DeleteNext]_vars

\* CacheService and the read path over a store that other writers share and
\* that may be unreachable.  One image is there from an earlier upload, its
\* cache entry expired; the other id names no image.
CacheSpecInit ==
    /\ SemInit /\ RLInit /\ ExtInit /\ rl_enabled /\ rl_client
    /\ cache_on \in BOOLEAN
    /\ cache_up \in BOOLEAN
    /\ cache_up => cache_on
    /\ db = [i \in Images |-> IF i = "img1" THEN "u1" ELSE "absent"]
    /\ blobs = {"img1"}
    /\ cache = [i \in Images |-> "none"]
    /\ op = [t \in Tasks |-> NoOp]
    /\ handler = [t \in Tasks |-> FALSE]
    /\ last = [call |-> [kind |-> "none"], handler |-> FALSE]
    /\ deleted = {}

CacheNext ==
    \/ \E t \in Workers, i \in Images, use_cache \in BOOLEAN :
          GetStart(t, i, use_cache)
    \/ \E t \in Workers : GetInvalidate(t)
    \/ \E t \in Workers : GetDb(t)
    \/ \E t \in Workers : GetSet(t)
    \/ \E t \in Workers, i \in Images : CacheGet(t, i)
    \/ \E t \in Workers, i \in Images : CacheSet(t, i)
    \/ \E t \in Workers, i \in Images : CacheInvalidate(t, i)
    \/ \E i \in Images, e \in EntryKinds : StoreWrite(i, e)
    \/ \E i \in Images : CacheExpires(i)

SpecCache == CacheSpecInit /\ [][CacheNext]_vars

\* an Image through _image_to_dict, set, get and _dict_to_image
RoundTripInit ==
    /\ SemInit /\ RLInit /\ ImgInit /\ StoInit /\ faults = FALSE /\ AuxInit
    /\ rl_enabled /\ rl_client /\ cache_on /\ cache_up
    /\ \E image \in ImageValues : rt = [stage |-> "image", v |-> image, cur |-> image]

RoundTripNext == RtToDict \/ RtSet \/ RtGet \/ RtToImage

SpecRoundTrip == RoundTripInit /\ [][RoundTripNext]_vars

\* the four storage verbs, each call made on both backends
StorageInit ==
    /\ SemInit /\ RLInit /\ ImgInit
    /\ rl_enabled /\ rl_client /\ cache_on /\ cache_up
    /\ rt = RtIdle
    /\ StoInit /\ AuxInit
    /\ faults \in BOOLEAN

StorageNext ==
    \/ \E verb \in StOps, k \in StKeys, d \in Data : StIssue(verb, k, d)
    \/ \E c \in Callers :
          \/ LocalSaveOpen(c) \/ LocalSaveWrite(c)
          \/ LocalGetExists(c) \/ LocalGetRead(c)
          \/ LocalDeleteExists(c) \/ LocalDeleteRemove(c)
          \/ LocalExists(c)
          \/ MinioSave(c) \/ MinioGet(c)
          \/ MinioDeleteStat(c) \/ MinioDeleteRemove(c)
          \/ MinioExists(c)

SpecStorage == StorageInit /\ [][StorageNext]_vars

\* saves and deletes by tasks that call a backend independently of each
\* other, the stores working without failure
StorageRaceInit == StorageInit /\ ~faults

\* the application runs on one backend, the one the settings select: the
\* callers of the other backend never call
OnlyBackend(b) == \A o \in Callers : o[1] # b => stc[o].op = "none"

StorageRaceNext ==
    \/ \E c \in Callers, verb \in {"save", "delete"}, k \in StKeys, d \in Data :
          OnlyBackend(c[1]) /\ StBegin(c, verb, k, d)
    \/ \E c \in Callers :
          \/ LocalSaveOpen(c) \/ LocalSaveWrite(c)
          \/ LocalDeleteExists(c) \/ LocalDeleteRemove(c)
          \/ MinioSave(c)
          \/ MinioDeleteStat(c) \/ MinioDeleteRemove(c)

SpecStorageRace == StorageRaceInit /\ [][StorageRaceNext]_vars

\* upload requests through the handler; uploaded images are deleted again
UploadSpecInit ==
    SemInit /\ RLInit /\ ExtInit /\ ImgInit /\ rl_enabled /\ rl_client /\ cache_on /\ cache_up

UploadNext ==
    \/ \E t \in Workers, i \in UploadIdents : HandlerStart(t, i)
    \/ \E t \in Workers : HandlerAcquire(t)
    \/ \E t \in Workers : TimeoutFires(t)
    \/ \E t \in Workers : HandlerResume(t)
    \/ \E t \in Workers : HandlerRead(t)
    \/ \E t \in Workers, i \in Images, u \in Users : HandlerUpload(t, i, u)
    \/ \E t \in Workers : UploadCommit(t)
    \/ \E t \in Workers : UploadCache(t)
    \/ \E i \in Images : DeleteDone(i)
    \/ Tick

SpecUpload == UploadSpecInit /\ [][UploadNext]_vars

\* ------------------------------------------------- derived quantities
Holders == {t \in Tasks : pc[t] = "holding"}
\* units handed to a waiter that has not run yet
Granted == {t \in Tasks : pc[t] = "waiting" /\ fut[t] = "result"}
\* units of the pool, wherever they are
TotalUnits == semaphore.value + Cardinality(Granted) + Cardinality(Holders)

\* units not held by any task: free in the counter or being handed over
FreeUnits == semaphore.value + Cardinality(Granted)

\* ------------------------------------------------- claims: UploadSemaphore

C6_CountWithinCapacity ==
    /\ 0 <= active_uploads
    /\ active_uploads <= limit
    /\ available_slots = limit - active_uploads
    /\ available_slots >= 0

\* C7: a release() without a matching acquire is a no-op: the count stays
\* non-negative and the pool still admits at most `limit` tasks.
C7_StrayReleaseNoOp ==
    strays > 0 => (active_count >= 0 /\ TotalUnits <= limit)

\* C8: a call that times out changes neither active_uploads nor the number
\* of units not held by a task, in any of its steps (queueing, the timeout,
\* the wake-up that returns False), also when a release handed it a unit
\* just before the timeout.
C8_TimeoutNoSideEffect ==
    [][\A t \in Tasks :
          (\/ (Acquire(t) /\ pc'[t] = "waiting")
           \/ TimeoutFires(t)
           \/ (Resume(t) /\ pc'[t] = "timed_out"))
          => (active_count' = active_count /\ FreeUnits' = FreeUnits)]_vars

\* a call returned False after a release had handed it a unit
C8_Witness ==
    \E t \in Tasks : pc[t] = "timed_out" /\ must_cancel[t]

\* C10: more tasks than slots call acquire_with_timeout() and nobody
\* releases: once every call has returned, exactly `limit` returned True.
C10_ExactlyCapacityAdmitted ==
    (/\ NumTasks > limit
     /\ ~released
     /\ \A t \in Tasks : pc[t] \in {"holding", "timed_out"})
    => (/\ Cardinality(Holders) = limit
        /\ Cardinality({t \in Tasks : pc[t] = "timed_out"}) = NumTasks - limit)

C10_Witness ==
    /\ NumTasks > limit
    /\ ~released
    /\ \A t \in Tasks : pc[t] \in {"holding", "timed_out"}
    /\ \E t \in Tasks : pc[t] = "timed_out" /\ ~must_cancel[t]

InBody == {t \in Tasks : handler[t] /\ pc[t] \in {"h_read", "up_save", "up_commit", "up_cache"}}

\* C9: the upload handler releases its slot exactly once on every way out of
\* its body (201, 400 for an invalid file, an exception of upload), and not
\* at all when it answers 503 because acquire returned False: active_uploads
\* always equals the number of handlers inside the body, the pool's units
\* always add up to the capacity, a way out of the body gives back one unit
\* and a 503 gives back none.
C9_ReleaseOncePerAcquire ==
    /\ [](/\ active_count = Cardinality(InBody)
          /\ FreeUnits + Cardinality(InBody) = limit)
    /\ [][\A t \in Tasks :
             /\ (t \in InBody /\ pc'[t] = "idle")
                   => (/\ active_count' = active_count - 1
                       /\ FreeUnits' = FreeUnits + 1)
             /\ (handler[t] /\ pc[t] = "waiting" /\ pc'[t] = "idle")
                   => (/\ active_count' = active_count
                       /\ FreeUnits' = FreeUnits)]_vars

\* a handler left its body on an exception of upload and the unit it gave
\* back was handed to a handler that was waiting
C9_Witness ==
    /\ last.handler
    /\ last.call.kind = "http"
    /\ last.call.status = 500
    /\ InBody = {}
    /\ \E t \in Tasks : handler[t] /\ pc[t] = "waiting" /\ fut[t] = "result"

\* C28: when storage.save raises in upload, the call ends there with the
\* error (the handler answers 500), no row is added and no cache entry is
\* written; an upload reaches the database only with its object stored.
C28_SaveErrorPropagates ==
    [][\A t \in Tasks :
          /\ (pc[t] = "up_save" /\ pc'[t] = "idle")
             => (/\ last'.call = [kind |-> "http", status |-> 500]
                 /\ db' = db /\ cache' = cache /\ blobs' = blobs)
          /\ (pc[t] = "up_save" /\ pc'[t] # pc[t] /\ pc'[t] # "idle")
             => (pc'[t] = "up_commit" /\ op'[t].image \in blobs')]_vars

\* an upload ended with 500 and there is no object, no row and no cache entry
C28_Witness ==
    /\ last.handler
    /\ last.call.kind = "http"
    /\ last.call.status = 500
    /\ blobs = {}
    /\ \A i \in Images : db[i] = "absent" /\ cache[i] = "none"
    /\ \A t \in Tasks : pc[t] = "idle"

\* the steps of an upload request, each with the steps that may follow it
UploadOrder ==
    {<<"idle", "h_acquire">>,
     <<"h_acquire", "h_read">>, <<"h_acquire", "waiting">>,
     <<"waiting", "h_read">>, <<"waiting", "idle">>,
     <<"h_read", "up_save">>, <<"h_read", "idle">>,
     <<"up_save", "up_commit">>, <<"up_save", "idle">>,
     <<"up_commit", "up_cache">>, <<"up_commit", "idle">>,
     <<"up_cache", "idle">>}

\* C29: an upload request goes through rate-limit check, acquire, body read,
\* storage save, database commit and cache write in this order.  A request
\* that is rate limited is answered 429 and touches neither the semaphore
\* nor storage, database or cache; a request whose acquire timed out is
\* answered 503, holds no slot and touches neither storage, database nor
\* cache; the body is read only by a request that has just got its slot; an
\* object is stored only by the save step and a cache entry written only by
\* the cache step of some request.
C29_UploadOrder ==
    [][/\ \A t \in Tasks :
            /\ pc'[t] # pc[t] => <<pc[t], pc'[t]>> \in UploadOrder
            /\ ((\E i \in UploadIdents : HandlerStart(t, i)) /\ pc'[t] = "idle")
               => (/\ last'.call.status = 429
                   /\ UNCHANGED <<semaphore, fut, active_count>>
                   /\ UNCHANGED <<blobs, db, cache>>)
            /\ (pc[t] = "waiting" /\ pc'[t] = "idle")
               => (/\ last'.call.status = 503
                   /\ active_count' = active_count
                   /\ UNCHANGED <<blobs, db, cache>>)
            /\ (pc[t] # "h_read" /\ pc'[t] = "h_read")
               => active_count' = active_count + 1
       /\ blobs' \ blobs # {}
            => \E t \in Tasks : pc[t] = "up_save" /\ pc'[t] = "up_commit"
       /\ (\E i \in Images : cache[i] = "none" /\ cache'[i] # "none")
            => \E t \in Tasks : pc[t] = "up_cache" /\ pc'[t] = "idle"]_vars

\* a request was answered 503 while another one, past its save, holds the
\* slot and is about to write the cache
C29_Witness ==
    /\ last.handler
    /\ last.call.kind = "http"
    /\ last.call.status = 503
    /\ \E t \in Tasks : pc[t] = "up_cache" /\ op[t].image \in blobs
    /\ active_count = 1

\* C30: every answer to an overloaded upload carries a retry hint: a 429 and
\* a 503 both have a Retry-After, a positive number of seconds.
C30_RetryHint ==
    (last.call.kind = "http" /\ last.call.status \in {429, 503})
    => (/\ "retry_after" \in DOMAIN last.call
        /\ last.call.retry_after # <<>>
        /\ last.call.retry_after[1] > 0)

\* ------------------------------------------------- claims: ImageService, CacheService

\* C2: once delete(image_id, user_id) has returned (True, "deleted"), the
\* cache holds no entry for that image.
C2_NoEntryForDeleted == \A i \in deleted : cache[i] = "none"

\* C16: the read path has three outcomes.  With a cache in use, a call that
\* ends in its first step ended on the stored entry, without a database
\* step, and what it returns is found and tagged HIT; a call that reaches the
\* database writes the cache only for a row it found, to a snapshot of that
\* image, and is tagged MISS.  With no cache configured or use_cache false
\* the call ends in its first step with the database's answer tagged
\* DISABLED.  No step of a read changes the database, and only the cache
\* write and the cleanup delete change the cache.
C16_ThreeWayStatus ==
    [][\A t \in Tasks :
          /\ \A i \in Images, use_cache \in BOOLEAN :
                GetStart(t, i, use_cache) =>
                    /\ cache' = cache /\ db' = db
                    /\ IF use_cache /\ cache_on
                       THEN pc'[t] = "idle" =>
                              /\ cache[i] \in {"image", "not_snapshot"}
                              /\ last'.call.kind = "get" =>
                                    (/\ last'.call.status = "HIT"
                                     /\ last'.call.found)
                       ELSE /\ pc'[t] = "idle"
                            /\ last'.call
                                 = GetResult(i, db[i] # "absent", "DISABLED", TRUE)
          /\ GetDb(t) =>
                /\ cache' = cache /\ db' = db
                /\ IF db[op[t].image] = "absent"
                   THEN /\ pc'[t] = "idle"
                        /\ last'.call = GetResult(op[t].image, FALSE, "MISS", TRUE)
                   ELSE pc'[t] = "get_set"
          /\ GetSet(t) =>
                /\ db' = db
                /\ last'.call = GetResult(op[t].image, TRUE, "MISS", TRUE)
                /\ \A j \in Images :
                      cache'[j] # cache[j] => (j = op[t].image /\ cache'[j] = "image")]_vars

\* a read on an instance with a cache returned a HIT of an image that is in
\* the database and whose entry is a snapshot
C16_Witness ==
    /\ cache_on /\ cache_up
    /\ last.call.kind = "get"
    /\ last.call.status = "HIT"
    /\ last.call.complete
    /\ db[last.call.image] # "absent"
    /\ cache[last.call.image] = "image"

\* C17: with the cache store unavailable a read never raises and never
\* returns a HIT: it goes to the database and returns what the database
\* holds for the id, found or not, whatever entries the store has.
C17_ReadFailsOpen ==
    /\ [](( ~cache_up /\ last.call.kind \in {"get", "get_raised"}) =>
             (/\ last.call.kind = "get"
              /\ last.call.status # "HIT"
              /\ last.call.complete))
    /\ [][~cache_up =>
            \A t \in Tasks :
               /\ \A i \in Images, use_cache \in BOOLEAN :
                     GetStart(t, i, use_cache) =>
                        IF use_cache /\ cache_on
                        THEN pc'[t] = "get_db"
                        ELSE last'.call
                               = GetResult(i, db[i] # "absent", "DISABLED", TRUE)
               /\ GetDb(t) =>
                     IF db[op[t].image] = "absent"
                     THEN last'.call = GetResult(op[t].image, FALSE, "MISS", TRUE)
                     ELSE pc'[t] = "get_set"
               /\ GetSet(t) =>
                     /\ last'.call = GetResult(op[t].image, TRUE, "MISS", TRUE)
                     /\ cache' = cache]_vars

\* the store is unavailable and holds an entry that is no snapshot; the read
\* of that image returned the database row as a MISS
C17_Witness ==
    /\ cache_on /\ ~cache_up
    /\ last.call = GetResult("img1", TRUE, "MISS", TRUE)
    /\ cache["img1"] = "not_snapshot"

\* C18: with the cache store unreachable or no client connected,
\* get_image_metadata returns None, set_image_metadata and invalidate_image
\* return False, each in its first step, and no entry changes.
C18_CacheCallsFailOpen ==
    /\ [](~cache_up =>
            /\ last.call.kind = "cache_get" => last.call.ret = "miss"
            /\ last.call.kind = "cache_set" => ~last.call.ok
            /\ last.call.kind = "cache_invalidate" => ~last.call.ok)
    /\ [][~cache_up =>
            \A t \in Tasks, i \in Images :
               (CacheGet(t, i) \/ CacheSet(t, i) \/ CacheInvalidate(t, i))
               => (cache' = cache /\ pc'[t] = "idle")]_vars

\* the store is unavailable, a set returned False and the entry under the
\* key is the text that was there
C18_Witness ==
    /\ ~cache_up
    /\ last.call.kind = "cache_set"
    /\ ~last.call.ok
    /\ cache[last.call.image] = "corrupt"

\* C19 as stated: get_image_metadata on text that does not deserialize
\* returns a miss and the entry is gone when it returns.
C19_DeletesCorruptEntry ==
    [][\A t \in Tasks :
          (GetInvalidate(t) /\ op[t].kind = "cache_get")
          => (/\ last'.call.ret = "miss"
              /\ cache'[op[t].image] = "none")]_vars

\* C19, amended: get_image_metadata on text that is not empty and does not
\* deserialize returns a miss and issues a delete of the key whose outcome
\* it does not check: when the store executes the delete the key is gone, so
\* that the next get is a plain miss; when the delete fails no entry changes
\* and the call returns a miss all the same.
C19_CleanupBestEffort ==
    [][\A t \in Tasks :
          (GetInvalidate(t) /\ op[t].kind = "cache_get")
          => (/\ last'.call.ret = "miss"
              /\ IF last'.call.cleanup[1]
                 THEN cache'[op[t].image] = "none"
                 ELSE cache' = cache)]_vars

\* a get found text that does not parse, its delete was executed, and the
\* key is gone
C19_Witness ==
    /\ last.call.kind = "cache_get"
    /\ last.call.cleanup = <<TRUE>>
    /\ last.call.ret = "miss"
    /\ cache[last.call.image] = "none"

\* C22: on a key that has no entry, get_image_metadata returns a miss in its
\* first step, invalidate_image returns True whenever the store replied, and
\* neither puts an entry under any key.
C22_AbsentKey ==
    [][\A t \in Tasks, i \in Images :
          cache[i] = "none" =>
             /\ CacheGet(t, i) =>
                   (/\ pc'[t] = "idle"
                    /\ last'.call.ret = "miss"
                    /\ cache' = cache)
             /\ CacheInvalidate(t, i) =>
                   (/\ pc'[t] = "idle"
                    /\ last'.call.answered => last'.call.ok
                    /\ cache' = cache)]_vars

\* no key has an entry and an invalidate_image that the store replied to
\* returned True
C22_Witness ==
    /\ \A i \in Images : cache[i] = "none"
    /\ last.call.kind = "cache_invalidate"
    /\ last.call.answered
    /\ last.call.ok

\* C20: no read raises, and no read returns an Image rebuilt from an entry
\* that is no complete snapshot.
C20_BadEntryServedFromDb ==
    /\ last.call.kind # "get_raised"
    /\ last.call.kind = "get" => last.call.complete

Store(b) == IF b = "local" THEN files ELSE objects
StoreAfter(b) == IF b = "local" THEN files' ELSE objects'

\* the call of caller c returns or raises in this step
Ends(c) == stc[c].pc # "idle" /\ stc'[c].pc = "idle"

\* what a call may end with besides its result: an error of a failing store
OrFault(o) == faults /\ o = OtherError

\* C23: a save that returned left its bytes under the key; a get of a key
\* whose last save returned bytes b, with no delete of it since, returns
\* exactly b; and no step of a call on one key changes what another key
\* holds, get and exists changing nothing at all.
C23_StorageRoundTrip ==
    [][\A c \in Callers :
          LET b == c[1]
              k == stc[c].key
          IN /\ (Ends(c) /\ stc[c].op = "save" /\ stc'[c].out.kind = "token")
                => StoreAfter(b)[k] = stc[c].data
             /\ (Ends(c) /\ stc[c].op = "get" /\ intended[b][k] \in Data)
                => (stc'[c].out = Bytes(intended[b][k]) \/ OrFault(stc'[c].out))
             /\ (stc[c].pc # "idle" /\ stc'[c] # stc[c])
                => (/\ \A j \in StKeys \ {k} :
                         /\ files'[j] = files[j]
                         /\ objects'[j] = objects[j]
                    /\ stc[c].op \in {"get", "exists"}
                         => (files' = files /\ objects' = objects))]_vars

\* both backends returned b2 for the image's key, saved twice, while the
\* thumbnail's key holds b1
C23_Witness ==
    /\ \A b \in Backends :
          /\ stc[<<b, 1>>].op = "get"
          /\ stc[<<b, 1>>].key = "img1.jpg"
          /\ stc[<<b, 1>>].out = Bytes("b2")
          /\ Store(b)["thumbs/img1_300.jpg"] = "b1"

\* C24: a get of a key that is absent raises FileNotFoundError, in both
\* backends; a get of a key that is there returns bytes, and when the store
\* fails the error raised is another one, never FileNotFoundError.
C24_NotFoundDistinct ==
    [][\A c \in Callers :
          (Ends(c) /\ stc[c].op = "get")
          => LET present == Store(c[1])[stc[c].key] # "absent"
                 o == stc'[c].out
             IN /\ ~present => (o = NotFound \/ OrFault(o))
                /\ present => (o.kind = "bytes" \/ OrFault(o))]_vars

\* the same get raised FileNotFoundError on the backend that has no such
\* key and another error on the backend that has it and failed
C24_Witness ==
    /\ stc[<<"local", 1>>].op = "get"
    /\ stc[<<"local", 1>>].out = NotFound
    /\ files[stc[<<"local", 1>>].key] = "absent"
    /\ stc[<<"minio", 1>>].op = "get"
    /\ stc[<<"minio", 1>>].out = OtherError
    /\ objects[stc[<<"minio", 1>>].key] # "absent"

\* C25: delete of a key that is there returns True and the object is gone;
\* delete of a key that is absent returns False, raises nothing and changes
\* no object; in both backends.
C25_DeleteOutcome ==
    [][\A c \in Callers :
          (Ends(c) /\ stc[c].op = "delete")
          => LET b == c[1]
                 k == stc[c].key
                 o == stc'[c].out
             IN /\ intended[b][k] \in Data
                   => \/ o = Bool(TRUE) /\ StoreAfter(b)[k] = "absent"
                      \/ OrFault(o)
                /\ intended[b][k] = "absent"
                   => /\ o = Bool(FALSE) \/ OrFault(o)
                      /\ files' = files /\ objects' = objects]_vars

\* both backends returned True for the delete of the image's key, which is
\* gone, and the thumbnail's key still holds its bytes
C25_Witness ==
    /\ \A b \in Backends :
          /\ stc[<<b, 1>>].op = "delete"
          /\ stc[<<b, 1>>].key = "img1.jpg"
          /\ stc[<<b, 1>>].out = Bool(TRUE)
          /\ Store(b)["img1.jpg"] = "absent"
          /\ Store(b)["thumbs/img1_300.jpg"] = "b1"

\* C26: exists(k) returns True exactly when the last save or delete of k
\* that took effect was a save: True after a save that returned, False after
\* a delete that returned True and for a key never saved.
C26_ExistsReflects ==
    [][\A c \in Callers :
          (Ends(c) /\ stc[c].op = "exists" /\ intended[c[1]][stc[c].key] # "unknown")
          => \/ stc'[c].out = Bool(intended[c[1]][stc[c].key] \in Data)
             \/ OrFault(stc'[c].out)]_vars

\* exists returned False on both backends for the image's key, saved and
\* deleted before, and the thumbnail's key is there
C26_Witness ==
    /\ \A b \in Backends :
          /\ stc[<<b, 1>>].op = "exists"
          /\ stc[<<b, 1>>].key = "img1.jpg"
          /\ stc[<<b, 1>>].out = Bool(FALSE)
          /\ intended[b]["img1.jpg"] = "absent"
          /\ Store(b)["thumbs/img1_300.jpg"] = "b2"

\* two outcomes are the same but for the location that save returns
SameOutcome(o1, o2) ==
    /\ o1.kind = o2.kind
    /\ o1.kind # "token" => o1 = o2

\* C27: when no store fails, the same calls made on the local and on the
\* networked backend return the same outcomes, the location returned by
\* save apart, and leave the same bytes under the same keys.
C27_BackendsInterchangeable ==
    (~faults /\ \A c \in Callers : stc[c].pc = "idle")
    => /\ SameOutcome(stc[<<"local", 1>>].out, stc[<<"minio", 1>>].out)
       /\ files = objects

\* a save returned on both backends, with different locations, after the
\* other key was saved and the same bytes are under both keys in both
C27_Witness ==
    /\ ~faults
    /\ \A b \in Backends : stc[<<b, 1>>].out.kind = "token"
    /\ stc[<<"local", 1>>].out.v = "uploads/img1.jpg"
    /\ stc[<<"minio", 1>>].out.v = "s3://images/img1.jpg"
    /\ files = objects
    /\ files["thumbs/img1_300.jpg"] = "b1"
    /\ files["img1.jpg"] = "b2"

\* ------------------------------------------------- claims: RateLimiter

\* C12: a check(i) that finds no key, the window opened by the first check
\* having expired (or none having been opened), starts a new window: it
\* returns current_count = 1 and allowed, whatever the window before counted.
C12_NewWindowAfterExpiry ==
    [][\A c \in Clients :
          (CheckExecute(c) /\ counter[make_key(rl_id[c])] = NoKey)
          => (/\ rl_result'[c].current_count = 1
              /\ rl_result'[c].allowed
              /\ counter'[make_key(rl_id[c])].ttl = window_seconds)]_vars

\* a check was denied in a window that ended by expiry, and a later check of
\* the same identifier is the first of a new window
C12_Witness ==
    \E c, d \in Clients :
        /\ rl_result[c].path = "ended"
        /\ rl_result[c].by = "expiry"
        /\ rl_result[d].path = "ok"
        /\ rl_result[d].ident = rl_result[c].ident
        /\ rl_result[d].current_count = 1
        /\ rl_result[d].allowed

\* C13: the expiry of a key is set once, to window_seconds, by the increment
\* that creates the key; while the key exists no step raises its time to
\* live or removes its expiry, an increment leaves the time to live as it
\* is, and the count never decreases.
C13_ExpirySetOnce ==
    [][\A k \in Keys :
          /\ (counter[k] = NoKey /\ counter'[k] # NoKey)
                => (counter'[k].count = 1 /\ counter'[k].ttl = window_seconds)
          /\ (counter[k] # NoKey /\ counter'[k] # NoKey)
                => (/\ counter'[k].count >= counter[k].count
                    /\ counter'[k].ttl >= 0
                    /\ counter'[k].ttl <= counter[k].ttl
                    /\ (counter'[k].count > counter[k].count
                          => counter'[k].ttl = counter[k].ttl))]_vars

\* a check made later in the window was denied and read a time to live
\* below window_seconds, and the key's time to live is not above what it read
C13_Witness ==
    \E c \in Clients :
        /\ rl_result[c].path = "ok"
        /\ ~rl_result[c].allowed
        /\ rl_result[c].ttl_read > 0
        /\ rl_result[c].ttl_read < window_seconds
        /\ counter[make_key(rl_result[c].ident)].ttl <= rl_result[c].ttl_read

\* C14: check, reset and get_status on identifier i leave the key of every
\* other identifier j as it is, and a check of j counts from j's key alone.
C14_IdentifiersIndependent ==
    [][\A i, j \in Idents :
          i # j =>
            /\ ((\/ \E c \in Clients :
                       \/ CheckCall(c, i)
                       \/ (CheckExecute(c) /\ rl_id[c] = i)
                       \/ (CheckRedisError(c) /\ rl_id[c] = i)
                       \/ GetStatusGet(i)
                       \/ GetStatusTtl
                       \/ GetStatusRedisError
                  \/ Reset(i))
                 => counter'[make_key(j)] = counter[make_key(j)])
            /\ \A c \in Clients :
                  (CheckExecute(c) /\ rl_id[c] = j)
                  => rl_result'[c].current_count = counter[make_key(j)].count + 1]_vars

\* one identifier was checked over its limit and get_status read that, while
\* the only check of another identifier was counted 1 and allowed
C14_Witness ==
    \E c, d \in Clients :
        /\ rl_result[c].path = "ok" /\ ~rl_result[c].allowed
        /\ rl_status.path = "status"
        /\ rl_status.ident = rl_result[c].ident
        /\ rl_status.current_count > rl_limit
        /\ rl_result[d].path = "ok" /\ rl_result[d].allowed
        /\ rl_result[d].ident # rl_result[c].ident
        /\ rl_result[d].current_count = 1
        /\ counter[make_key(rl_result[d].ident)].count = 1

\* C15: every denied decision carries one retry_after with
\* 0 < retry_after <= window_seconds, the time to live the batch read when
\* that is positive and window_seconds otherwise; every allowed decision
\* carries none.
C15_RetryAfter ==
    \A c \in Clients :
        LET r == rl_result[c] IN
        r.path \in {"ok", "error", "disabled", "no_client"} =>
            IF r.allowed
            THEN r.retry_after = <<>>
            ELSE /\ Len(r.retry_after) = 1
                 /\ r.retry_after[1] > 0
                 /\ r.retry_after[1] <= window_seconds
                 /\ r.retry_after[1] = IF r.ttl_read > 0 THEN r.ttl_read
                                                         ELSE window_seconds

\* denied decisions of both kinds: one that read a positive time to live and
\* one that read 0 and fell back to window_seconds
C15_Witness ==
    \E c, d \in Clients :
        /\ rl_result[c].path = "ok" /\ ~rl_result[c].allowed
        /\ rl_result[c].ttl_read = 0
        /\ rl_result[c].retry_after = <<window_seconds>>
        /\ rl_result[d].path = "ok" /\ ~rl_result[d].allowed
        /\ rl_result[d].ttl_read > 0
        /\ rl_result[d].retry_after = <<rl_result[d].ttl_read>>

\* checks of identifier i that returned a decision of the store's count
Counted(i) == {c \in Clients : rl_result[c].path = "ok" /\ rl_result[c].ident = i}

\* C3: with the store answering, the k-th check of an identifier inside one
\* window returns current_count = k; it is allowed with remaining = limit - k
\* when k <= limit and denied with remaining = 0 when k > limit.
C3_KthCheck ==
    \A c \in Clients :
        rl_result[c].path = "ok" =>
            LET r == rl_result[c] IN
            /\ r.current_count = r.k
            /\ r.k <= rl_limit => (r.allowed /\ r.remaining = rl_limit - r.k)
            /\ r.k > rl_limit => (~r.allowed /\ r.remaining = 0)

\* the limit-th check allowed with nothing remaining, the next one denied
C3_Witness ==
    \E c, d \in Clients :
        /\ rl_result[c].path = "ok" /\ rl_result[d].path = "ok"
        /\ rl_result[c].ident = rl_result[d].ident
        /\ rl_result[c].k = rl_limit /\ rl_result[c].allowed
        /\ rl_result[c].remaining = 0
        /\ rl_result[d].k = rl_limit + 1 /\ ~rl_result[d].allowed

\* C4: checks of one identifier in one window, also when in flight at the
\* same time, see pairwise distinct counts; when all N clients have made the
\* N checks of the window, exactly min(N, limit) of them are allowed.
C4_DistinctCounts ==
    \A i \in Idents :
        /\ \A c, d \in Counted(i) :
              c # d => rl_result[c].current_count # rl_result[d].current_count
        /\ (Counted(i) = Clients /\ calls[i] = NumClients) =>
              Cardinality({c \in Clients : rl_result[c].allowed})
                  = Min(NumClients, rl_limit)

\* every client checked the same identifier in one window, one of them while
\* another check was in flight, and more checks were made than the limit
C4_Witness ==
    \E i \in Idents :
        /\ Counted(i) = Clients
        /\ calls[i] = NumClients
        /\ NumClients > rl_limit
        /\ \E c \in Clients : rl_result[c].overlapped

\* C5: a check made while the limiter is disabled or has no client, or whose
\* batch raised RedisError, returns allowed with current_count 0 and
\* remaining = limit, whatever the counter holds.
C5_FailOpen ==
    \A c \in Clients :
        LET r == rl_result[c] IN
        (/\ r.path \in {"disabled", "no_client", "error"}
         /\ (~rl_enabled \/ ~rl_client \/ r.path = "error")) =>
            /\ r.allowed
            /\ r.current_count = 0
            /\ r.remaining = rl_limit
            /\ r.retry_after = <<>>

\* a check failed open on RedisError while the identifier's count was
\* already over the limit
C5_Witness ==
    \E c \in Clients :
        /\ rl_result[c].path = "error"
        /\ counter[make_key(rl_result[c].ident)].count > rl_limit


\* C31: get_status writes nothing: every step of it leaves the counters, their
\* expiries and the results of the checks as they are, and a check executed
\* after any number of get_status calls still counts the checks of its
\* window alone.  The dict holds the count that GET replied, the quota that
\* remains of it and the TTL reply, none below 0; without a client, or when
\* the store raises, it is count 0, remaining = limit and ttl 0.
C31_GetStatusReadOnly ==
    [][/\ ((\E i \in Idents : GetStatusGet(i)) \/ GetStatusTtl \/ GetStatusRedisError)
          => /\ counter' = counter
             /\ calls' = calls
             /\ rl_result' = rl_result
       /\ \A i \in Idents :
             GetStatusGet(i) =>
                IF rl_client
                THEN rl_read' = <<i, counter[make_key(i)].count>>
                ELSE /\ rl_status'.ident = i
                     /\ rl_status'.current_count = 0
                     /\ rl_status'.remaining = rl_limit
                     /\ rl_status'.ttl = 0
       /\ GetStatusRedisError =>
             /\ rl_status'.ident = rl_read[1]
             /\ rl_status'.current_count = 0
             /\ rl_status'.remaining = rl_limit
             /\ rl_status'.ttl = 0
       /\ GetStatusTtl =>
             /\ rl_status'.ident = rl_read[1]
             /\ rl_status'.current_count = rl_read[2]
             /\ rl_status'.remaining
                  = (IF rl_read[2] >= rl_limit THEN 0 ELSE rl_limit - rl_read[2])
             /\ rl_status'.ttl
                  = (IF counter[make_key(rl_read[1])].ttl < 0 THEN 0
                     ELSE counter[make_key(rl_read[1])].ttl)
       /\ \A c \in Clients :
             CheckExecute(c) =>
                rl_result'[c].current_count = calls[rl_id[c]] + 1]_vars

\* get_status read the count 1 of an identifier, and the check executed after
\* that read was counted 2
C31_Witness ==
    \E c \in Clients :
        /\ rl_status.path = "status"
        /\ rl_status.current_count = 1
        /\ rl_status.ttl > 0
        /\ rl_result[c].path = "ok"
        /\ rl_result[c].ident = rl_status.ident
        /\ rl_result[c].current_count = 2
        /\ rl_result[c].k = 2


\* C32: with the store answering and no reset, the checks of one identifier
\* allowed inside one window are at most the limit, and those allowed inside
\* two windows that follow each other are at most twice the limit.
C32_WindowBound ==
    \A i \in Idents :
        /\ granted.now[i] <= rl_limit
        /\ granted.prev[i] + granted.now[i] <= 2 * rl_limit

\* the boundary burst: the limit was allowed in a window that ended, the limit
\* again in the window that followed, and one more check was denied in it
C32_Witness ==
    \E i \in Idents, c \in Clients :
        /\ granted.kept
        /\ granted.prev[i] = rl_limit
        /\ granted.now[i] = rl_limit
        /\ rl_result[c].path = "ok"
        /\ rl_result[c].ident = i
        /\ ~rl_result[c].allowed


\* C33: every acquire_with_timeout() call ends: a task that waits for a slot
\* is later either admitted (True) or timed out (False), whether or not the
\* tasks holding the slots ever release them.
C33_AcquireTerminates ==
    \A t \in Tasks :
        (pc[t] = "waiting") ~> (pc[t] \in {"holding", "timed_out"})

\* a waiter's call has ended with False while every slot is still held and
\* no release was ever called
C33_Witness ==
    \E t \in Tasks :
        /\ pc[t] = "timed_out"
        /\ ~released
        /\ Cardinality({u \in Tasks : pc[u] = "holding"}) = limit


C38_ClientFixedAtStartup ==
    (boot.pc = "running" /\ boot.cache_service # "connected") =>
        /\ ~rl_client
        /\ \A k \in Keys : counter[k] = NoKey
        /\ \A c \in Clients :
              /\ rl_pc[c] = "idle"
              /\ rl_result[c].path # "none" =>
                    /\ rl_result[c].allowed
                    /\ rl_result[c].current_count = 0
                    /\ rl_result[c].remaining = rl_limit

\* connect() failed at startup, the counter store is reachable now, and a
\* check of the enabled limiter was allowed for want of a client
C38_Witness ==
    /\ boot.pc = "running"
    /\ boot.cache_enabled
    /\ boot.cache_service = "failed"
    /\ boot.store_up
    /\ rl_enabled
    /\ \E c \in Clients : rl_result[c].path = "no_client"


C36_ReadsShowThumbnail ==
    \A t \in Workers :
        (thumb.rd[t].after /\ thumb.rd[t].status # "none") =>
            thumb.rd[t].shown = "new"


\* C37: of two delete(k) calls on one backend that were in flight together
\* and both began while the key was there, neither raises and exactly one
\* returns True.
C37_ConcurrentDelete ==
    \A c, o \in Callers :
        (/\ c # o /\ c[1] = o[1]
         /\ stc[c].raced /\ stc[o].raced
         /\ stc[c].op = "delete" /\ stc[o].op = "delete"
         /\ stc[c].key = stc[o].key
         /\ stc[c].pc = "idle" /\ stc[o].pc = "idle") =>
            /\ stc[c].out.kind = "bool"
            /\ stc[o].out.kind = "bool"
            /\ stc[c].out.v # stc[o].out.v

====
